---- MODULE Spec2Model ----
(***************************************************************************)
(* Link-preview acquisition pipeline of src/link-preview.js: the LRU       *)
(* cache (memory + localStorage), the video thumbnail heuristic and the    *)
(* deduplicating, concurrency-limited, retrying RequestQueue.              *)
(*                                                                         *)
(* One action is one event-loop handler run to completion: a call of       *)
(* enqueue, or the continuation of _execute after one of its two awaits    *)
(* (fetch, res.json) together with its catch/finally blocks and the        *)
(* _drain they call.                                                       *)
(***************************************************************************)
EXTENDS Integers, Sequences, FiniteSets, TLC

\* ------------------------------------------------------------------------
\* CFG (src/link-preview.js:11-25)
\* ------------------------------------------------------------------------
API_TIMEOUT == 5000
CACHE_TTL == 604800000
CACHE_MAX == 50
CACHE_EVICT_MARGIN == 10
CACHE_MAX_BYTES == 5 * 1024 * 1024
PRELOAD_VIEWPORT == 5
CACHE_KEY_PREFIX == "lp2_"
CACHE_META_KEY == "lp2_meta"
MAX_CONCURRENT == 2
MAX_RETRY == 2
KEY_SLICE == 40
VIDEO_ID_LEN == 11

\* ------------------------------------------------------------------------
\* Bounds of the model
\* ------------------------------------------------------------------------
\* tasks the queue creates in one behaviour of Spec
MaxTasks == 3
\* tasks the queue creates in one behaviour of SpecBurst
MaxBurst == 4
\* calls of enqueue in a row that return the same promise
MaxCalls == 3
\* tasks created in SpecThumb
MaxThumbTasks == 2
\* calls of LRUCache.get in SpecCache
MaxGets == 2
\* calls of LRUCache.get in SpecLRU
MaxLruGets == 1
\* the intersection entries one call of the observer's callback delivers
MaxEntries == 1
\* the calls of LRUCache.get a page with a Preloader makes
MaxPreloadGets == 6
\* the times the list is rendered
MaxRenders == 2
\* the previews a page shows
MaxShows == 3

\* ------------------------------------------------------------------------
\* Strings.  TLC has no operations on the characters of a string, so every
\* string the code takes apart or builds is listed here with its characters;
\* the code's string operations work on the character sequences.
\* ------------------------------------------------------------------------
Chars(s) ==
  CASE s = "" -> <<>>
  [] s = "&sz=32" -> <<"&","s","z","=","3","2">>
  [] s = "/" -> <<"/">>
  [] s = "/01" -> <<"/","0","1">>
  [] s = "/01/x" -> <<"/","0","1","/","x">>
  [] s = "/02" -> <<"/","0","2">>
  [] s = "/03" -> <<"/","0","3">>
  [] s = "/04" -> <<"/","0","4">>
  [] s = "/05" -> <<"/","0","5">>
  [] s = "/06" -> <<"/","0","6">>
  [] s = "/07" -> <<"/","0","7">>
  [] s = "/08" -> <<"/","0","8">>
  [] s = "/09" -> <<"/","0","9">>
  [] s = "/10" -> <<"/","1","0">>
  [] s = "/11" -> <<"/","1","1">>
  [] s = "/12" -> <<"/","1","2">>
  [] s = "/13" -> <<"/","1","3">>
  [] s = "/14" -> <<"/","1","4">>
  [] s = "/15" -> <<"/","1","5">>
  [] s = "/16" -> <<"/","1","6">>
  [] s = "/17" -> <<"/","1","7">>
  [] s = "/18" -> <<"/","1","8">>
  [] s = "/19" -> <<"/","1","9">>
  [] s = "/20" -> <<"/","2","0">>
  [] s = "/21" -> <<"/","2","1">>
  [] s = "/22" -> <<"/","2","2">>
  [] s = "/23" -> <<"/","2","3">>
  [] s = "/24" -> <<"/","2","4">>
  [] s = "/25" -> <<"/","2","5">>
  [] s = "/26" -> <<"/","2","6">>
  [] s = "/27" -> <<"/","2","7">>
  [] s = "/28" -> <<"/","2","8">>
  [] s = "/29" -> <<"/","2","9">>
  [] s = "/30" -> <<"/","3","0">>
  [] s = "/31" -> <<"/","3","1">>
  [] s = "/32" -> <<"/","3","2">>
  [] s = "/33" -> <<"/","3","3">>
  [] s = "/34" -> <<"/","3","4">>
  [] s = "/35" -> <<"/","3","5">>
  [] s = "/36" -> <<"/","3","6">>
  [] s = "/37" -> <<"/","3","7">>
  [] s = "/38" -> <<"/","3","8">>
  [] s = "/39" -> <<"/","3","9">>
  [] s = "/40" -> <<"/","4","0">>
  [] s = "/41" -> <<"/","4","1">>
  [] s = "/42" -> <<"/","4","2">>
  [] s = "/43" -> <<"/","4","3">>
  [] s = "/44" -> <<"/","4","4">>
  [] s = "/45" -> <<"/","4","5">>
  [] s = "/46" -> <<"/","4","6">>
  [] s = "/47" -> <<"/","4","7">>
  [] s = "/48" -> <<"/","4","8">>
  [] s = "/49" -> <<"/","4","9">>
  [] s = "/50" -> <<"/","5","0">>
  [] s = "/51" -> <<"/","5","1">>
  [] s = "/@" -> <<"/","@">>
  [] s = "/@chan" -> <<"/","@","c","h","a","n">>
  [] s = "/a" -> <<"/","a">>
  [] s = "/b" -> <<"/","b">>
  [] s = "/c" -> <<"/","c">>
  [] s = "/c/" -> <<"/","c","/">>
  [] s = "/channel/" -> <<"/","c","h","a","n","n","e","l","/">>
  [] s = "/d" -> <<"/","d">>
  [] s = "/dQw4w9WgXcQ" -> <<"/","d","Q","w","4","w","9","W","g","X","c","Q">>
  [] s = "/embed/" -> <<"/","e","m","b","e","d","/">>
  [] s = "/hqdefault.jpg" -> <<"/","h","q","d","e","f","a","u","l","t",".","j","p","g">>
  [] s = "/shorts/" -> <<"/","s","h","o","r","t","s","/">>
  [] s = "/user/" -> <<"/","u","s","e","r","/">>
  [] s = "/watch" -> <<"/","w","a","t","c","h">>
  [] s = "aHR0cCUzQSUyRiUyRg==" -> <<"a","H","R","0","c","C","U","z","Q","S","U","y","R","i","U","y","R","g","=","=">>
  [] s = "aHR0cHMlM0ElMkYlMkZ3d3cueW91dHViZS5jb20lMkYlNDBjaGFu" -> <<"a","H","R","0","c","H","M","l","M","0","E","l","M","k","Y","l","M","k","Z","3","d","3","c","u","e","W","9","1","d","H","V","i","Z","S","5","j","b","2","0","l","M","k","Y","l","N","D","B","j","a","G","F","u">>
  [] s = "aHR0cHMlM0ElMkYlMkZ3d3cueW91dHViZS5jb20lMkZ3YXRjaCUzRnYlM0RkUXc0dzlXZ1hjUQ==" -> <<"a","H","R","0","c","H","M","l","M","0","E","l","M","k","Y","l","M","k","Z","3","d","3","c","u","e","W","9","1","d","H","V","i","Z","S","5","j","b","2","0","l","M","k","Z","3","Y","X","R","j","a","C","U","z","R","n","Y","l","M","0","R","k","U","X","c","0","d","z","l","X","Z","1","h","j","U","Q","=","=">>
  [] s = "aHR0cHMlM0ElMkYlMkZ5b3V0dS5iZSUyRmRRdzR3OVdnWGNR" -> <<"a","H","R","0","c","H","M","l","M","0","E","l","M","k","Y","l","M","k","Z","5","b","3","V","0","d","S","5","i","Z","S","U","y","R","m","R","R","d","z","R","3","O","V","d","n","W","G","N","R">>
  [] s = "aHR0cHMlM0ElMkYlMkZleGFtcGxlLmNvbSUyRjA0" -> <<"a","H","R","0","c","H","M","l","M","0","E","l","M","k","Y","l","M","k","Z","l","e","G","F","t","c","G","x","l","L","m","N","v","b","S","U","y","R","j","A","0">>
  [] s = "aHR0cHMlM0ElMkYlMkZleGFtcGxlLmNvbSUyRjA1" -> <<"a","H","R","0","c","H","M","l","M","0","E","l","M","k","Y","l","M","k","Z","l","e","G","F","t","c","G","x","l","L","m","N","v","b","S","U","y","R","j","A","1">>
  [] s = "aHR0cHMlM0ElMkYlMkZleGFtcGxlLmNvbSUyRjA2" -> <<"a","H","R","0","c","H","M","l","M","0","E","l","M","k","Y","l","M","k","Z","l","e","G","F","t","c","G","x","l","L","m","N","v","b","S","U","y","R","j","A","2">>
  [] s = "aHR0cHMlM0ElMkYlMkZleGFtcGxlLmNvbSUyRjA3" -> <<"a","H","R","0","c","H","M","l","M","0","E","l","M","k","Y","l","M","k","Z","l","e","G","F","t","c","G","x","l","L","m","N","v","b","S","U","y","R","j","A","3">>
  [] s = "aHR0cHMlM0ElMkYlMkZleGFtcGxlLmNvbSUyRjA4" -> <<"a","H","R","0","c","H","M","l","M","0","E","l","M","k","Y","l","M","k","Z","l","e","G","F","t","c","G","x","l","L","m","N","v","b","S","U","y","R","j","A","4">>
  [] s = "aHR0cHMlM0ElMkYlMkZleGFtcGxlLmNvbSUyRjA5" -> <<"a","H","R","0","c","H","M","l","M","0","E","l","M","k","Y","l","M","k","Z","l","e","G","F","t","c","G","x","l","L","m","N","v","b","S","U","y","R","j","A","5">>
  [] s = "aHR0cHMlM0ElMkYlMkZleGFtcGxlLmNvbSUyRjAx" -> <<"a","H","R","0","c","H","M","l","M","0","E","l","M","k","Y","l","M","k","Z","l","e","G","F","t","c","G","x","l","L","m","N","v","b","S","U","y","R","j","A","x">>
  [] s = "aHR0cHMlM0ElMkYlMkZleGFtcGxlLmNvbSUyRjAxJTJGeA==" -> <<"a","H","R","0","c","H","M","l","M","0","E","l","M","k","Y","l","M","k","Z","l","e","G","F","t","c","G","x","l","L","m","N","v","b","S","U","y","R","j","A","x","J","T","J","G","e","A","=","=">>
  [] s = "aHR0cHMlM0ElMkYlMkZleGFtcGxlLmNvbSUyRjAy" -> <<"a","H","R","0","c","H","M","l","M","0","E","l","M","k","Y","l","M","k","Z","l","e","G","F","t","c","G","x","l","L","m","N","v","b","S","U","y","R","j","A","y">>
  [] s = "aHR0cHMlM0ElMkYlMkZleGFtcGxlLmNvbSUyRjAz" -> <<"a","H","R","0","c","H","M","l","M","0","E","l","M","k","Y","l","M","k","Z","l","e","G","F","t","c","G","x","l","L","m","N","v","b","S","U","y","R","j","A","z">>
  [] s = "aHR0cHMlM0ElMkYlMkZleGFtcGxlLmNvbSUyRjE0" -> <<"a","H","R","0","c","H","M","l","M","0","E","l","M","k","Y","l","M","k","Z","l","e","G","F","t","c","G","x","l","L","m","N","v","b","S","U","y","R","j","E","0">>
  [] s = "aHR0cHMlM0ElMkYlMkZleGFtcGxlLmNvbSUyRjE1" -> <<"a","H","R","0","c","H","M","l","M","0","E","l","M","k","Y","l","M","k","Z","l","e","G","F","t","c","G","x","l","L","m","N","v","b","S","U","y","R","j","E","1">>
  [] s = "aHR0cHMlM0ElMkYlMkZleGFtcGxlLmNvbSUyRjE2" -> <<"a","H","R","0","c","H","M","l","M","0","E","l","M","k","Y","l","M","k","Z","l","e","G","F","t","c","G","x","l","L","m","N","v","b","S","U","y","R","j","E","2">>
  [] s = "aHR0cHMlM0ElMkYlMkZleGFtcGxlLmNvbSUyRjE3" -> <<"a","H","R","0","c","H","M","l","M","0","E","l","M","k","Y","l","M","k","Z","l","e","G","F","t","c","G","x","l","L","m","N","v","b","S","U","y","R","j","E","3">>
  [] s = "aHR0cHMlM0ElMkYlMkZleGFtcGxlLmNvbSUyRjE4" -> <<"a","H","R","0","c","H","M","l","M","0","E","l","M","k","Y","l","M","k","Z","l","e","G","F","t","c","G","x","l","L","m","N","v","b","S","U","y","R","j","E","4">>
  [] s = "aHR0cHMlM0ElMkYlMkZleGFtcGxlLmNvbSUyRjE5" -> <<"a","H","R","0","c","H","M","l","M","0","E","l","M","k","Y","l","M","k","Z","l","e","G","F","t","c","G","x","l","L","m","N","v","b","S","U","y","R","j","E","5">>
  [] s = "aHR0cHMlM0ElMkYlMkZleGFtcGxlLmNvbSUyRjEw" -> <<"a","H","R","0","c","H","M","l","M","0","E","l","M","k","Y","l","M","k","Z","l","e","G","F","t","c","G","x","l","L","m","N","v","b","S","U","y","R","j","E","w">>
  [] s = "aHR0cHMlM0ElMkYlMkZleGFtcGxlLmNvbSUyRjEx" -> <<"a","H","R","0","c","H","M","l","M","0","E","l","M","k","Y","l","M","k","Z","l","e","G","F","t","c","G","x","l","L","m","N","v","b","S","U","y","R","j","E","x">>
  [] s = "aHR0cHMlM0ElMkYlMkZleGFtcGxlLmNvbSUyRjEy" -> <<"a","H","R","0","c","H","M","l","M","0","E","l","M","k","Y","l","M","k","Z","l","e","G","F","t","c","G","x","l","L","m","N","v","b","S","U","y","R","j","E","y">>
  [] s = "aHR0cHMlM0ElMkYlMkZleGFtcGxlLmNvbSUyRjEz" -> <<"a","H","R","0","c","H","M","l","M","0","E","l","M","k","Y","l","M","k","Z","l","e","G","F","t","c","G","x","l","L","m","N","v","b","S","U","y","R","j","E","z">>
  [] s = "aHR0cHMlM0ElMkYlMkZleGFtcGxlLmNvbSUyRjI0" -> <<"a","H","R","0","c","H","M","l","M","0","E","l","M","k","Y","l","M","k","Z","l","e","G","F","t","c","G","x","l","L","m","N","v","b","S","U","y","R","j","I","0">>
  [] s = "aHR0cHMlM0ElMkYlMkZleGFtcGxlLmNvbSUyRjI1" -> <<"a","H","R","0","c","H","M","l","M","0","E","l","M","k","Y","l","M","k","Z","l","e","G","F","t","c","G","x","l","L","m","N","v","b","S","U","y","R","j","I","1">>
  [] s = "aHR0cHMlM0ElMkYlMkZleGFtcGxlLmNvbSUyRjI2" -> <<"a","H","R","0","c","H","M","l","M","0","E","l","M","k","Y","l","M","k","Z","l","e","G","F","t","c","G","x","l","L","m","N","v","b","S","U","y","R","j","I","2">>
  [] s = "aHR0cHMlM0ElMkYlMkZleGFtcGxlLmNvbSUyRjI3" -> <<"a","H","R","0","c","H","M","l","M","0","E","l","M","k","Y","l","M","k","Z","l","e","G","F","t","c","G","x","l","L","m","N","v","b","S","U","y","R","j","I","3">>
  [] s = "aHR0cHMlM0ElMkYlMkZleGFtcGxlLmNvbSUyRjI4" -> <<"a","H","R","0","c","H","M","l","M","0","E","l","M","k","Y","l","M","k","Z","l","e","G","F","t","c","G","x","l","L","m","N","v","b","S","U","y","R","j","I","4">>
  [] s = "aHR0cHMlM0ElMkYlMkZleGFtcGxlLmNvbSUyRjI5" -> <<"a","H","R","0","c","H","M","l","M","0","E","l","M","k","Y","l","M","k","Z","l","e","G","F","t","c","G","x","l","L","m","N","v","b","S","U","y","R","j","I","5">>
  [] s = "aHR0cHMlM0ElMkYlMkZleGFtcGxlLmNvbSUyRjIw" -> <<"a","H","R","0","c","H","M","l","M","0","E","l","M","k","Y","l","M","k","Z","l","e","G","F","t","c","G","x","l","L","m","N","v","b","S","U","y","R","j","I","w">>
  [] s = "aHR0cHMlM0ElMkYlMkZleGFtcGxlLmNvbSUyRjIx" -> <<"a","H","R","0","c","H","M","l","M","0","E","l","M","k","Y","l","M","k","Z","l","e","G","F","t","c","G","x","l","L","m","N","v","b","S","U","y","R","j","I","x">>
  [] s = "aHR0cHMlM0ElMkYlMkZleGFtcGxlLmNvbSUyRjIy" -> <<"a","H","R","0","c","H","M","l","M","0","E","l","M","k","Y","l","M","k","Z","l","e","G","F","t","c","G","x","l","L","m","N","v","b","S","U","y","R","j","I","y">>
  [] s = "aHR0cHMlM0ElMkYlMkZleGFtcGxlLmNvbSUyRjIz" -> <<"a","H","R","0","c","H","M","l","M","0","E","l","M","k","Y","l","M","k","Z","l","e","G","F","t","c","G","x","l","L","m","N","v","b","S","U","y","R","j","I","z">>
  [] s = "aHR0cHMlM0ElMkYlMkZleGFtcGxlLmNvbSUyRjM0" -> <<"a","H","R","0","c","H","M","l","M","0","E","l","M","k","Y","l","M","k","Z","l","e","G","F","t","c","G","x","l","L","m","N","v","b","S","U","y","R","j","M","0">>
  [] s = "aHR0cHMlM0ElMkYlMkZleGFtcGxlLmNvbSUyRjM1" -> <<"a","H","R","0","c","H","M","l","M","0","E","l","M","k","Y","l","M","k","Z","l","e","G","F","t","c","G","x","l","L","m","N","v","b","S","U","y","R","j","M","1">>
  [] s = "aHR0cHMlM0ElMkYlMkZleGFtcGxlLmNvbSUyRjM2" -> <<"a","H","R","0","c","H","M","l","M","0","E","l","M","k","Y","l","M","k","Z","l","e","G","F","t","c","G","x","l","L","m","N","v","b","S","U","y","R","j","M","2">>
  [] s = "aHR0cHMlM0ElMkYlMkZleGFtcGxlLmNvbSUyRjM3" -> <<"a","H","R","0","c","H","M","l","M","0","E","l","M","k","Y","l","M","k","Z","l","e","G","F","t","c","G","x","l","L","m","N","v","b","S","U","y","R","j","M","3">>
  [] s = "aHR0cHMlM0ElMkYlMkZleGFtcGxlLmNvbSUyRjM4" -> <<"a","H","R","0","c","H","M","l","M","0","E","l","M","k","Y","l","M","k","Z","l","e","G","F","t","c","G","x","l","L","m","N","v","b","S","U","y","R","j","M","4">>
  [] s = "aHR0cHMlM0ElMkYlMkZleGFtcGxlLmNvbSUyRjM5" -> <<"a","H","R","0","c","H","M","l","M","0","E","l","M","k","Y","l","M","k","Z","l","e","G","F","t","c","G","x","l","L","m","N","v","b","S","U","y","R","j","M","5">>
  [] s = "aHR0cHMlM0ElMkYlMkZleGFtcGxlLmNvbSUyRjMw" -> <<"a","H","R","0","c","H","M","l","M","0","E","l","M","k","Y","l","M","k","Z","l","e","G","F","t","c","G","x","l","L","m","N","v","b","S","U","y","R","j","M","w">>
  [] s = "aHR0cHMlM0ElMkYlMkZleGFtcGxlLmNvbSUyRjMx" -> <<"a","H","R","0","c","H","M","l","M","0","E","l","M","k","Y","l","M","k","Z","l","e","G","F","t","c","G","x","l","L","m","N","v","b","S","U","y","R","j","M","x">>
  [] s = "aHR0cHMlM0ElMkYlMkZleGFtcGxlLmNvbSUyRjMy" -> <<"a","H","R","0","c","H","M","l","M","0","E","l","M","k","Y","l","M","k","Z","l","e","G","F","t","c","G","x","l","L","m","N","v","b","S","U","y","R","j","M","y">>
  [] s = "aHR0cHMlM0ElMkYlMkZleGFtcGxlLmNvbSUyRjMz" -> <<"a","H","R","0","c","H","M","l","M","0","E","l","M","k","Y","l","M","k","Z","l","e","G","F","t","c","G","x","l","L","m","N","v","b","S","U","y","R","j","M","z">>
  [] s = "aHR0cHMlM0ElMkYlMkZleGFtcGxlLmNvbSUyRjQ0" -> <<"a","H","R","0","c","H","M","l","M","0","E","l","M","k","Y","l","M","k","Z","l","e","G","F","t","c","G","x","l","L","m","N","v","b","S","U","y","R","j","Q","0">>
  [] s = "aHR0cHMlM0ElMkYlMkZleGFtcGxlLmNvbSUyRjQ1" -> <<"a","H","R","0","c","H","M","l","M","0","E","l","M","k","Y","l","M","k","Z","l","e","G","F","t","c","G","x","l","L","m","N","v","b","S","U","y","R","j","Q","1">>
  [] s = "aHR0cHMlM0ElMkYlMkZleGFtcGxlLmNvbSUyRjQ2" -> <<"a","H","R","0","c","H","M","l","M","0","E","l","M","k","Y","l","M","k","Z","l","e","G","F","t","c","G","x","l","L","m","N","v","b","S","U","y","R","j","Q","2">>
  [] s = "aHR0cHMlM0ElMkYlMkZleGFtcGxlLmNvbSUyRjQ3" -> <<"a","H","R","0","c","H","M","l","M","0","E","l","M","k","Y","l","M","k","Z","l","e","G","F","t","c","G","x","l","L","m","N","v","b","S","U","y","R","j","Q","3">>
  [] s = "aHR0cHMlM0ElMkYlMkZleGFtcGxlLmNvbSUyRjQ4" -> <<"a","H","R","0","c","H","M","l","M","0","E","l","M","k","Y","l","M","k","Z","l","e","G","F","t","c","G","x","l","L","m","N","v","b","S","U","y","R","j","Q","4">>
  [] s = "aHR0cHMlM0ElMkYlMkZleGFtcGxlLmNvbSUyRjQ5" -> <<"a","H","R","0","c","H","M","l","M","0","E","l","M","k","Y","l","M","k","Z","l","e","G","F","t","c","G","x","l","L","m","N","v","b","S","U","y","R","j","Q","5">>
  [] s = "aHR0cHMlM0ElMkYlMkZleGFtcGxlLmNvbSUyRjQw" -> <<"a","H","R","0","c","H","M","l","M","0","E","l","M","k","Y","l","M","k","Z","l","e","G","F","t","c","G","x","l","L","m","N","v","b","S","U","y","R","j","Q","w">>
  [] s = "aHR0cHMlM0ElMkYlMkZleGFtcGxlLmNvbSUyRjQx" -> <<"a","H","R","0","c","H","M","l","M","0","E","l","M","k","Y","l","M","k","Z","l","e","G","F","t","c","G","x","l","L","m","N","v","b","S","U","y","R","j","Q","x">>
  [] s = "aHR0cHMlM0ElMkYlMkZleGFtcGxlLmNvbSUyRjQy" -> <<"a","H","R","0","c","H","M","l","M","0","E","l","M","k","Y","l","M","k","Z","l","e","G","F","t","c","G","x","l","L","m","N","v","b","S","U","y","R","j","Q","y">>
  [] s = "aHR0cHMlM0ElMkYlMkZleGFtcGxlLmNvbSUyRjQz" -> <<"a","H","R","0","c","H","M","l","M","0","E","l","M","k","Y","l","M","k","Z","l","e","G","F","t","c","G","x","l","L","m","N","v","b","S","U","y","R","j","Q","z">>
  [] s = "aHR0cHMlM0ElMkYlMkZleGFtcGxlLmNvbSUyRjUw" -> <<"a","H","R","0","c","H","M","l","M","0","E","l","M","k","Y","l","M","k","Z","l","e","G","F","t","c","G","x","l","L","m","N","v","b","S","U","y","R","j","U","w">>
  [] s = "aHR0cHMlM0ElMkYlMkZleGFtcGxlLmNvbSUyRjUx" -> <<"a","H","R","0","c","H","M","l","M","0","E","l","M","k","Y","l","M","k","Z","l","e","G","F","t","c","G","x","l","L","m","N","v","b","S","U","y","R","j","U","x">>
  [] s = "aHR0cHMlM0ElMkYlMkZleGFtcGxlLmNvbSUyRmE=" -> <<"a","H","R","0","c","H","M","l","M","0","E","l","M","k","Y","l","M","k","Z","l","e","G","F","t","c","G","x","l","L","m","N","v","b","S","U","y","R","m","E","=">>
  [] s = "aHR0cHMlM0ElMkYlMkZleGFtcGxlLmNvbSUyRmI=" -> <<"a","H","R","0","c","H","M","l","M","0","E","l","M","k","Y","l","M","k","Z","l","e","G","F","t","c","G","x","l","L","m","N","v","b","S","U","y","R","m","I","=">>
  [] s = "aHR0cHMlM0ElMkYlMkZleGFtcGxlLmNvbSUyRmM=" -> <<"a","H","R","0","c","H","M","l","M","0","E","l","M","k","Y","l","M","k","Z","l","e","G","F","t","c","G","x","l","L","m","N","v","b","S","U","y","R","m","M","=">>
  [] s = "aHR0cHMlM0ElMkYlMkZleGFtcGxlLmNvbSUyRmQ=" -> <<"a","H","R","0","c","H","M","l","M","0","E","l","M","k","Y","l","M","k","Z","l","e","G","F","t","c","G","x","l","L","m","N","v","b","S","U","y","R","m","Q","=">>
  [] s = "bilibili.com" -> <<"b","i","l","i","b","i","l","i",".","c","o","m">>
  [] s = "dQw4w9WgXcQ" -> <<"d","Q","w","4","w","9","W","g","X","c","Q">>
  [] s = "example.com" -> <<"e","x","a","m","p","l","e",".","c","o","m">>
  [] s = "https://i.ytimg.com/vi/" -> <<"h","t","t","p","s",":","/","/","i",".","y","t","i","m","g",".","c","o","m","/","v","i","/">>
  [] s = "https://i.ytimg.com/vi/dQw4w9WgXcQ/hqdefault.jpg" -> <<"h","t","t","p","s",":","/","/","i",".","y","t","i","m","g",".","c","o","m","/","v","i","/","d","Q","w","4","w","9","W","g","X","c","Q","/","h","q","d","e","f","a","u","l","t",".","j","p","g">>
  [] s = "https://www.google.com/s2/favicons?domain=" -> <<"h","t","t","p","s",":","/","/","w","w","w",".","g","o","o","g","l","e",".","c","o","m","/","s","2","/","f","a","v","i","c","o","n","s","?","d","o","m","a","i","n","=">>
  [] s = "https://www.google.com/s2/favicons?domain=example.com&sz=32" -> <<"h","t","t","p","s",":","/","/","w","w","w",".","g","o","o","g","l","e",".","c","o","m","/","s","2","/","f","a","v","i","c","o","n","s","?","d","o","m","a","i","n","=","e","x","a","m","p","l","e",".","c","o","m","&","s","z","=","3","2">>
  [] s = "https://www.google.com/s2/favicons?domain=www.youtube.com&sz=32" -> <<"h","t","t","p","s",":","/","/","w","w","w",".","g","o","o","g","l","e",".","c","o","m","/","s","2","/","f","a","v","i","c","o","n","s","?","d","o","m","a","i","n","=","w","w","w",".","y","o","u","t","u","b","e",".","c","o","m","&","s","z","=","3","2">>
  [] s = "https://www.google.com/s2/favicons?domain=youtu.be&sz=32" -> <<"h","t","t","p","s",":","/","/","w","w","w",".","g","o","o","g","l","e",".","c","o","m","/","s","2","/","f","a","v","i","c","o","n","s","?","d","o","m","a","i","n","=","y","o","u","t","u",".","b","e","&","s","z","=","3","2">>
  [] s = "lp2_" -> <<"l","p","2","_">>
  [] s = "lp2_aHR0cCUzQSUyRiUyRg==" -> <<"l","p","2","_","a","H","R","0","c","C","U","z","Q","S","U","y","R","i","U","y","R","g","=","=">>
  [] s = "lp2_aHR0cHMlM0ElMkYlMkZ3d3cueW91dHViZS5jb20l" -> <<"l","p","2","_","a","H","R","0","c","H","M","l","M","0","E","l","M","k","Y","l","M","k","Z","3","d","3","c","u","e","W","9","1","d","H","V","i","Z","S","5","j","b","2","0","l">>
  [] s = "lp2_aHR0cHMlM0ElMkYlMkZ5b3V0dS5iZSUyRmRRdzR3" -> <<"l","p","2","_","a","H","R","0","c","H","M","l","M","0","E","l","M","k","Y","l","M","k","Z","5","b","3","V","0","d","S","5","i","Z","S","U","y","R","m","R","R","d","z","R","3">>
  [] s = "lp2_aHR0cHMlM0ElMkYlMkZleGFtcGxlLmNvbSUyRjA0" -> <<"l","p","2","_","a","H","R","0","c","H","M","l","M","0","E","l","M","k","Y","l","M","k","Z","l","e","G","F","t","c","G","x","l","L","m","N","v","b","S","U","y","R","j","A","0">>
  [] s = "lp2_aHR0cHMlM0ElMkYlMkZleGFtcGxlLmNvbSUyRjA1" -> <<"l","p","2","_","a","H","R","0","c","H","M","l","M","0","E","l","M","k","Y","l","M","k","Z","l","e","G","F","t","c","G","x","l","L","m","N","v","b","S","U","y","R","j","A","1">>
  [] s = "lp2_aHR0cHMlM0ElMkYlMkZleGFtcGxlLmNvbSUyRjA2" -> <<"l","p","2","_","a","H","R","0","c","H","M","l","M","0","E","l","M","k","Y","l","M","k","Z","l","e","G","F","t","c","G","x","l","L","m","N","v","b","S","U","y","R","j","A","2">>
  [] s = "lp2_aHR0cHMlM0ElMkYlMkZleGFtcGxlLmNvbSUyRjA3" -> <<"l","p","2","_","a","H","R","0","c","H","M","l","M","0","E","l","M","k","Y","l","M","k","Z","l","e","G","F","t","c","G","x","l","L","m","N","v","b","S","U","y","R","j","A","3">>
  [] s = "lp2_aHR0cHMlM0ElMkYlMkZleGFtcGxlLmNvbSUyRjA4" -> <<"l","p","2","_","a","H","R","0","c","H","M","l","M","0","E","l","M","k","Y","l","M","k","Z","l","e","G","F","t","c","G","x","l","L","m","N","v","b","S","U","y","R","j","A","4">>
  [] s = "lp2_aHR0cHMlM0ElMkYlMkZleGFtcGxlLmNvbSUyRjA5" -> <<"l","p","2","_","a","H","R","0","c","H","M","l","M","0","E","l","M","k","Y","l","M","k","Z","l","e","G","F","t","c","G","x","l","L","m","N","v","b","S","U","y","R","j","A","5">>
  [] s = "lp2_aHR0cHMlM0ElMkYlMkZleGFtcGxlLmNvbSUyRjAx" -> <<"l","p","2","_","a","H","R","0","c","H","M","l","M","0","E","l","M","k","Y","l","M","k","Z","l","e","G","F","t","c","G","x","l","L","m","N","v","b","S","U","y","R","j","A","x">>
  [] s = "lp2_aHR0cHMlM0ElMkYlMkZleGFtcGxlLmNvbSUyRjAy" -> <<"l","p","2","_","a","H","R","0","c","H","M","l","M","0","E","l","M","k","Y","l","M","k","Z","l","e","G","F","t","c","G","x","l","L","m","N","v","b","S","U","y","R","j","A","y">>
  [] s = "lp2_aHR0cHMlM0ElMkYlMkZleGFtcGxlLmNvbSUyRjAz" -> <<"l","p","2","_","a","H","R","0","c","H","M","l","M","0","E","l","M","k","Y","l","M","k","Z","l","e","G","F","t","c","G","x","l","L","m","N","v","b","S","U","y","R","j","A","z">>
  [] s = "lp2_aHR0cHMlM0ElMkYlMkZleGFtcGxlLmNvbSUyRjE0" -> <<"l","p","2","_","a","H","R","0","c","H","M","l","M","0","E","l","M","k","Y","l","M","k","Z","l","e","G","F","t","c","G","x","l","L","m","N","v","b","S","U","y","R","j","E","0">>
  [] s = "lp2_aHR0cHMlM0ElMkYlMkZleGFtcGxlLmNvbSUyRjE1" -> <<"l","p","2","_","a","H","R","0","c","H","M","l","M","0","E","l","M","k","Y","l","M","k","Z","l","e","G","F","t","c","G","x","l","L","m","N","v","b","S","U","y","R","j","E","1">>
  [] s = "lp2_aHR0cHMlM0ElMkYlMkZleGFtcGxlLmNvbSUyRjE2" -> <<"l","p","2","_","a","H","R","0","c","H","M","l","M","0","E","l","M","k","Y","l","M","k","Z","l","e","G","F","t","c","G","x","l","L","m","N","v","b","S","U","y","R","j","E","2">>
  [] s = "lp2_aHR0cHMlM0ElMkYlMkZleGFtcGxlLmNvbSUyRjE3" -> <<"l","p","2","_","a","H","R","0","c","H","M","l","M","0","E","l","M","k","Y","l","M","k","Z","l","e","G","F","t","c","G","x","l","L","m","N","v","b","S","U","y","R","j","E","3">>
  [] s = "lp2_aHR0cHMlM0ElMkYlMkZleGFtcGxlLmNvbSUyRjE4" -> <<"l","p","2","_","a","H","R","0","c","H","M","l","M","0","E","l","M","k","Y","l","M","k","Z","l","e","G","F","t","c","G","x","l","L","m","N","v","b","S","U","y","R","j","E","4">>
  [] s = "lp2_aHR0cHMlM0ElMkYlMkZleGFtcGxlLmNvbSUyRjE5" -> <<"l","p","2","_","a","H","R","0","c","H","M","l","M","0","E","l","M","k","Y","l","M","k","Z","l","e","G","F","t","c","G","x","l","L","m","N","v","b","S","U","y","R","j","E","5">>
  [] s = "lp2_aHR0cHMlM0ElMkYlMkZleGFtcGxlLmNvbSUyRjEw" -> <<"l","p","2","_","a","H","R","0","c","H","M","l","M","0","E","l","M","k","Y","l","M","k","Z","l","e","G","F","t","c","G","x","l","L","m","N","v","b","S","U","y","R","j","E","w">>
  [] s = "lp2_aHR0cHMlM0ElMkYlMkZleGFtcGxlLmNvbSUyRjEx" -> <<"l","p","2","_","a","H","R","0","c","H","M","l","M","0","E","l","M","k","Y","l","M","k","Z","l","e","G","F","t","c","G","x","l","L","m","N","v","b","S","U","y","R","j","E","x">>
  [] s = "lp2_aHR0cHMlM0ElMkYlMkZleGFtcGxlLmNvbSUyRjEy" -> <<"l","p","2","_","a","H","R","0","c","H","M","l","M","0","E","l","M","k","Y","l","M","k","Z","l","e","G","F","t","c","G","x","l","L","m","N","v","b","S","U","y","R","j","E","y">>
  [] s = "lp2_aHR0cHMlM0ElMkYlMkZleGFtcGxlLmNvbSUyRjEz" -> <<"l","p","2","_","a","H","R","0","c","H","M","l","M","0","E","l","M","k","Y","l","M","k","Z","l","e","G","F","t","c","G","x","l","L","m","N","v","b","S","U","y","R","j","E","z">>
  [] s = "lp2_aHR0cHMlM0ElMkYlMkZleGFtcGxlLmNvbSUyRjI0" -> <<"l","p","2","_","a","H","R","0","c","H","M","l","M","0","E","l","M","k","Y","l","M","k","Z","l","e","G","F","t","c","G","x","l","L","m","N","v","b","S","U","y","R","j","I","0">>
  [] s = "lp2_aHR0cHMlM0ElMkYlMkZleGFtcGxlLmNvbSUyRjI1" -> <<"l","p","2","_","a","H","R","0","c","H","M","l","M","0","E","l","M","k","Y","l","M","k","Z","l","e","G","F","t","c","G","x","l","L","m","N","v","b","S","U","y","R","j","I","1">>
  [] s = "lp2_aHR0cHMlM0ElMkYlMkZleGFtcGxlLmNvbSUyRjI2" -> <<"l","p","2","_","a","H","R","0","c","H","M","l","M","0","E","l","M","k","Y","l","M","k","Z","l","e","G","F","t","c","G","x","l","L","m","N","v","b","S","U","y","R","j","I","2">>
  [] s = "lp2_aHR0cHMlM0ElMkYlMkZleGFtcGxlLmNvbSUyRjI3" -> <<"l","p","2","_","a","H","R","0","c","H","M","l","M","0","E","l","M","k","Y","l","M","k","Z","l","e","G","F","t","c","G","x","l","L","m","N","v","b","S","U","y","R","j","I","3">>
  [] s = "lp2_aHR0cHMlM0ElMkYlMkZleGFtcGxlLmNvbSUyRjI4" -> <<"l","p","2","_","a","H","R","0","c","H","M","l","M","0","E","l","M","k","Y","l","M","k","Z","l","e","G","F","t","c","G","x","l","L","m","N","v","b","S","U","y","R","j","I","4">>
  [] s = "lp2_aHR0cHMlM0ElMkYlMkZleGFtcGxlLmNvbSUyRjI5" -> <<"l","p","2","_","a","H","R","0","c","H","M","l","M","0","E","l","M","k","Y","l","M","k","Z","l","e","G","F","t","c","G","x","l","L","m","N","v","b","S","U","y","R","j","I","5">>
  [] s = "lp2_aHR0cHMlM0ElMkYlMkZleGFtcGxlLmNvbSUyRjIw" -> <<"l","p","2","_","a","H","R","0","c","H","M","l","M","0","E","l","M","k","Y","l","M","k","Z","l","e","G","F","t","c","G","x","l","L","m","N","v","b","S","U","y","R","j","I","w">>
  [] s = "lp2_aHR0cHMlM0ElMkYlMkZleGFtcGxlLmNvbSUyRjIx" -> <<"l","p","2","_","a","H","R","0","c","H","M","l","M","0","E","l","M","k","Y","l","M","k","Z","l","e","G","F","t","c","G","x","l","L","m","N","v","b","S","U","y","R","j","I","x">>
  [] s = "lp2_aHR0cHMlM0ElMkYlMkZleGFtcGxlLmNvbSUyRjIy" -> <<"l","p","2","_","a","H","R","0","c","H","M","l","M","0","E","l","M","k","Y","l","M","k","Z","l","e","G","F","t","c","G","x","l","L","m","N","v","b","S","U","y","R","j","I","y">>
  [] s = "lp2_aHR0cHMlM0ElMkYlMkZleGFtcGxlLmNvbSUyRjIz" -> <<"l","p","2","_","a","H","R","0","c","H","M","l","M","0","E","l","M","k","Y","l","M","k","Z","l","e","G","F","t","c","G","x","l","L","m","N","v","b","S","U","y","R","j","I","z">>
  [] s = "lp2_aHR0cHMlM0ElMkYlMkZleGFtcGxlLmNvbSUyRjM0" -> <<"l","p","2","_","a","H","R","0","c","H","M","l","M","0","E","l","M","k","Y","l","M","k","Z","l","e","G","F","t","c","G","x","l","L","m","N","v","b","S","U","y","R","j","M","0">>
  [] s = "lp2_aHR0cHMlM0ElMkYlMkZleGFtcGxlLmNvbSUyRjM1" -> <<"l","p","2","_","a","H","R","0","c","H","M","l","M","0","E","l","M","k","Y","l","M","k","Z","l","e","G","F","t","c","G","x","l","L","m","N","v","b","S","U","y","R","j","M","1">>
  [] s = "lp2_aHR0cHMlM0ElMkYlMkZleGFtcGxlLmNvbSUyRjM2" -> <<"l","p","2","_","a","H","R","0","c","H","M","l","M","0","E","l","M","k","Y","l","M","k","Z","l","e","G","F","t","c","G","x","l","L","m","N","v","b","S","U","y","R","j","M","2">>
  [] s = "lp2_aHR0cHMlM0ElMkYlMkZleGFtcGxlLmNvbSUyRjM3" -> <<"l","p","2","_","a","H","R","0","c","H","M","l","M","0","E","l","M","k","Y","l","M","k","Z","l","e","G","F","t","c","G","x","l","L","m","N","v","b","S","U","y","R","j","M","3">>
  [] s = "lp2_aHR0cHMlM0ElMkYlMkZleGFtcGxlLmNvbSUyRjM4" -> <<"l","p","2","_","a","H","R","0","c","H","M","l","M","0","E","l","M","k","Y","l","M","k","Z","l","e","G","F","t","c","G","x","l","L","m","N","v","b","S","U","y","R","j","M","4">>
  [] s = "lp2_aHR0cHMlM0ElMkYlMkZleGFtcGxlLmNvbSUyRjM5" -> <<"l","p","2","_","a","H","R","0","c","H","M","l","M","0","E","l","M","k","Y","l","M","k","Z","l","e","G","F","t","c","G","x","l","L","m","N","v","b","S","U","y","R","j","M","5">>
  [] s = "lp2_aHR0cHMlM0ElMkYlMkZleGFtcGxlLmNvbSUyRjMw" -> <<"l","p","2","_","a","H","R","0","c","H","M","l","M","0","E","l","M","k","Y","l","M","k","Z","l","e","G","F","t","c","G","x","l","L","m","N","v","b","S","U","y","R","j","M","w">>
  [] s = "lp2_aHR0cHMlM0ElMkYlMkZleGFtcGxlLmNvbSUyRjMx" -> <<"l","p","2","_","a","H","R","0","c","H","M","l","M","0","E","l","M","k","Y","l","M","k","Z","l","e","G","F","t","c","G","x","l","L","m","N","v","b","S","U","y","R","j","M","x">>
  [] s = "lp2_aHR0cHMlM0ElMkYlMkZleGFtcGxlLmNvbSUyRjMy" -> <<"l","p","2","_","a","H","R","0","c","H","M","l","M","0","E","l","M","k","Y","l","M","k","Z","l","e","G","F","t","c","G","x","l","L","m","N","v","b","S","U","y","R","j","M","y">>
  [] s = "lp2_aHR0cHMlM0ElMkYlMkZleGFtcGxlLmNvbSUyRjMz" -> <<"l","p","2","_","a","H","R","0","c","H","M","l","M","0","E","l","M","k","Y","l","M","k","Z","l","e","G","F","t","c","G","x","l","L","m","N","v","b","S","U","y","R","j","M","z">>
  [] s = "lp2_aHR0cHMlM0ElMkYlMkZleGFtcGxlLmNvbSUyRjQ0" -> <<"l","p","2","_","a","H","R","0","c","H","M","l","M","0","E","l","M","k","Y","l","M","k","Z","l","e","G","F","t","c","G","x","l","L","m","N","v","b","S","U","y","R","j","Q","0">>
  [] s = "lp2_aHR0cHMlM0ElMkYlMkZleGFtcGxlLmNvbSUyRjQ1" -> <<"l","p","2","_","a","H","R","0","c","H","M","l","M","0","E","l","M","k","Y","l","M","k","Z","l","e","G","F","t","c","G","x","l","L","m","N","v","b","S","U","y","R","j","Q","1">>
  [] s = "lp2_aHR0cHMlM0ElMkYlMkZleGFtcGxlLmNvbSUyRjQ2" -> <<"l","p","2","_","a","H","R","0","c","H","M","l","M","0","E","l","M","k","Y","l","M","k","Z","l","e","G","F","t","c","G","x","l","L","m","N","v","b","S","U","y","R","j","Q","2">>
  [] s = "lp2_aHR0cHMlM0ElMkYlMkZleGFtcGxlLmNvbSUyRjQ3" -> <<"l","p","2","_","a","H","R","0","c","H","M","l","M","0","E","l","M","k","Y","l","M","k","Z","l","e","G","F","t","c","G","x","l","L","m","N","v","b","S","U","y","R","j","Q","3">>
  [] s = "lp2_aHR0cHMlM0ElMkYlMkZleGFtcGxlLmNvbSUyRjQ4" -> <<"l","p","2","_","a","H","R","0","c","H","M","l","M","0","E","l","M","k","Y","l","M","k","Z","l","e","G","F","t","c","G","x","l","L","m","N","v","b","S","U","y","R","j","Q","4">>
  [] s = "lp2_aHR0cHMlM0ElMkYlMkZleGFtcGxlLmNvbSUyRjQ5" -> <<"l","p","2","_","a","H","R","0","c","H","M","l","M","0","E","l","M","k","Y","l","M","k","Z","l","e","G","F","t","c","G","x","l","L","m","N","v","b","S","U","y","R","j","Q","5">>
  [] s = "lp2_aHR0cHMlM0ElMkYlMkZleGFtcGxlLmNvbSUyRjQw" -> <<"l","p","2","_","a","H","R","0","c","H","M","l","M","0","E","l","M","k","Y","l","M","k","Z","l","e","G","F","t","c","G","x","l","L","m","N","v","b","S","U","y","R","j","Q","w">>
  [] s = "lp2_aHR0cHMlM0ElMkYlMkZleGFtcGxlLmNvbSUyRjQx" -> <<"l","p","2","_","a","H","R","0","c","H","M","l","M","0","E","l","M","k","Y","l","M","k","Z","l","e","G","F","t","c","G","x","l","L","m","N","v","b","S","U","y","R","j","Q","x">>
  [] s = "lp2_aHR0cHMlM0ElMkYlMkZleGFtcGxlLmNvbSUyRjQy" -> <<"l","p","2","_","a","H","R","0","c","H","M","l","M","0","E","l","M","k","Y","l","M","k","Z","l","e","G","F","t","c","G","x","l","L","m","N","v","b","S","U","y","R","j","Q","y">>
  [] s = "lp2_aHR0cHMlM0ElMkYlMkZleGFtcGxlLmNvbSUyRjQz" -> <<"l","p","2","_","a","H","R","0","c","H","M","l","M","0","E","l","M","k","Y","l","M","k","Z","l","e","G","F","t","c","G","x","l","L","m","N","v","b","S","U","y","R","j","Q","z">>
  [] s = "lp2_aHR0cHMlM0ElMkYlMkZleGFtcGxlLmNvbSUyRjUw" -> <<"l","p","2","_","a","H","R","0","c","H","M","l","M","0","E","l","M","k","Y","l","M","k","Z","l","e","G","F","t","c","G","x","l","L","m","N","v","b","S","U","y","R","j","U","w">>
  [] s = "lp2_aHR0cHMlM0ElMkYlMkZleGFtcGxlLmNvbSUyRjUx" -> <<"l","p","2","_","a","H","R","0","c","H","M","l","M","0","E","l","M","k","Y","l","M","k","Z","l","e","G","F","t","c","G","x","l","L","m","N","v","b","S","U","y","R","j","U","x">>
  [] s = "lp2_aHR0cHMlM0ElMkYlMkZleGFtcGxlLmNvbSUyRmE=" -> <<"l","p","2","_","a","H","R","0","c","H","M","l","M","0","E","l","M","k","Y","l","M","k","Z","l","e","G","F","t","c","G","x","l","L","m","N","v","b","S","U","y","R","m","E","=">>
  [] s = "lp2_aHR0cHMlM0ElMkYlMkZleGFtcGxlLmNvbSUyRmI=" -> <<"l","p","2","_","a","H","R","0","c","H","M","l","M","0","E","l","M","k","Y","l","M","k","Z","l","e","G","F","t","c","G","x","l","L","m","N","v","b","S","U","y","R","m","I","=">>
  [] s = "lp2_aHR0cHMlM0ElMkYlMkZleGFtcGxlLmNvbSUyRmM=" -> <<"l","p","2","_","a","H","R","0","c","H","M","l","M","0","E","l","M","k","Y","l","M","k","Z","l","e","G","F","t","c","G","x","l","L","m","N","v","b","S","U","y","R","m","M","=">>
  [] s = "lp2_aHR0cHMlM0ElMkYlMkZleGFtcGxlLmNvbSUyRmQ=" -> <<"l","p","2","_","a","H","R","0","c","H","M","l","M","0","E","l","M","k","Y","l","M","k","Z","l","e","G","F","t","c","G","x","l","L","m","N","v","b","S","U","y","R","m","Q","=">>
  [] s = "vimeo.com" -> <<"v","i","m","e","o",".","c","o","m">>
  [] s = "www." -> <<"w","w","w",".">>
  [] s = "www.youtube.com" -> <<"w","w","w",".","y","o","u","t","u","b","e",".","c","o","m">>
  [] s = "youtu.be" -> <<"y","o","u","t","u",".","b","e">>
  [] s = "youtube.com" -> <<"y","o","u","t","u","b","e",".","c","o","m">>
  [] s = "https://www.youtube.com/watch?v=dQw4w9WgXcQ" -> <<"h","t","t","p","s",":","/","/","w","w","w",".","y","o","u","t","u","b","e",".","c","o","m","/","w","a","t","c","h","?","v","=","d","Q","w","4","w","9","W","g","X","c","Q">>
  [] s = "https://youtu.be/dQw4w9WgXcQ" -> <<"h","t","t","p","s",":","/","/","y","o","u","t","u",".","b","e","/","d","Q","w","4","w","9","W","g","X","c","Q">>
  [] s = "https://www.youtube.com/@chan" -> <<"h","t","t","p","s",":","/","/","w","w","w",".","y","o","u","t","u","b","e",".","c","o","m","/","@","c","h","a","n">>
  [] s = "https://example.com/a" -> <<"h","t","t","p","s",":","/","/","e","x","a","m","p","l","e",".","c","o","m","/","a">>
  [] s = "https://example.com/b" -> <<"h","t","t","p","s",":","/","/","e","x","a","m","p","l","e",".","c","o","m","/","b">>
  [] s = "https://example.com/c" -> <<"h","t","t","p","s",":","/","/","e","x","a","m","p","l","e",".","c","o","m","/","c">>
  [] s = "https://example.com/d" -> <<"h","t","t","p","s",":","/","/","e","x","a","m","p","l","e",".","c","o","m","/","d">>
  [] s = "https://example.com/01/x" -> <<"h","t","t","p","s",":","/","/","e","x","a","m","p","l","e",".","c","o","m","/","0","1","/","x">>
  [] s = "http://" -> <<"h","t","t","p",":","/","/">>
  [] s = "https://example.com/01" -> <<"h","t","t","p","s",":","/","/","e","x","a","m","p","l","e",".","c","o","m","/","0","1">>
  [] s = "https://example.com/02" -> <<"h","t","t","p","s",":","/","/","e","x","a","m","p","l","e",".","c","o","m","/","0","2">>
  [] s = "https://example.com/03" -> <<"h","t","t","p","s",":","/","/","e","x","a","m","p","l","e",".","c","o","m","/","0","3">>
  [] s = "https://example.com/04" -> <<"h","t","t","p","s",":","/","/","e","x","a","m","p","l","e",".","c","o","m","/","0","4">>
  [] s = "https://example.com/05" -> <<"h","t","t","p","s",":","/","/","e","x","a","m","p","l","e",".","c","o","m","/","0","5">>
  [] s = "https://example.com/06" -> <<"h","t","t","p","s",":","/","/","e","x","a","m","p","l","e",".","c","o","m","/","0","6">>
  [] s = "https://example.com/07" -> <<"h","t","t","p","s",":","/","/","e","x","a","m","p","l","e",".","c","o","m","/","0","7">>
  [] s = "https://example.com/08" -> <<"h","t","t","p","s",":","/","/","e","x","a","m","p","l","e",".","c","o","m","/","0","8">>
  [] s = "https://example.com/09" -> <<"h","t","t","p","s",":","/","/","e","x","a","m","p","l","e",".","c","o","m","/","0","9">>
  [] s = "https://example.com/10" -> <<"h","t","t","p","s",":","/","/","e","x","a","m","p","l","e",".","c","o","m","/","1","0">>
  [] s = "https://example.com/11" -> <<"h","t","t","p","s",":","/","/","e","x","a","m","p","l","e",".","c","o","m","/","1","1">>
  [] s = "https://example.com/12" -> <<"h","t","t","p","s",":","/","/","e","x","a","m","p","l","e",".","c","o","m","/","1","2">>
  [] s = "https://example.com/13" -> <<"h","t","t","p","s",":","/","/","e","x","a","m","p","l","e",".","c","o","m","/","1","3">>
  [] s = "https://example.com/14" -> <<"h","t","t","p","s",":","/","/","e","x","a","m","p","l","e",".","c","o","m","/","1","4">>
  [] s = "https://example.com/15" -> <<"h","t","t","p","s",":","/","/","e","x","a","m","p","l","e",".","c","o","m","/","1","5">>
  [] s = "https://example.com/16" -> <<"h","t","t","p","s",":","/","/","e","x","a","m","p","l","e",".","c","o","m","/","1","6">>
  [] s = "https://example.com/17" -> <<"h","t","t","p","s",":","/","/","e","x","a","m","p","l","e",".","c","o","m","/","1","7">>
  [] s = "https://example.com/18" -> <<"h","t","t","p","s",":","/","/","e","x","a","m","p","l","e",".","c","o","m","/","1","8">>
  [] s = "https://example.com/19" -> <<"h","t","t","p","s",":","/","/","e","x","a","m","p","l","e",".","c","o","m","/","1","9">>
  [] s = "https://example.com/20" -> <<"h","t","t","p","s",":","/","/","e","x","a","m","p","l","e",".","c","o","m","/","2","0">>
  [] s = "https://example.com/21" -> <<"h","t","t","p","s",":","/","/","e","x","a","m","p","l","e",".","c","o","m","/","2","1">>
  [] s = "https://example.com/22" -> <<"h","t","t","p","s",":","/","/","e","x","a","m","p","l","e",".","c","o","m","/","2","2">>
  [] s = "https://example.com/23" -> <<"h","t","t","p","s",":","/","/","e","x","a","m","p","l","e",".","c","o","m","/","2","3">>
  [] s = "https://example.com/24" -> <<"h","t","t","p","s",":","/","/","e","x","a","m","p","l","e",".","c","o","m","/","2","4">>
  [] s = "https://example.com/25" -> <<"h","t","t","p","s",":","/","/","e","x","a","m","p","l","e",".","c","o","m","/","2","5">>
  [] s = "https://example.com/26" -> <<"h","t","t","p","s",":","/","/","e","x","a","m","p","l","e",".","c","o","m","/","2","6">>
  [] s = "https://example.com/27" -> <<"h","t","t","p","s",":","/","/","e","x","a","m","p","l","e",".","c","o","m","/","2","7">>
  [] s = "https://example.com/28" -> <<"h","t","t","p","s",":","/","/","e","x","a","m","p","l","e",".","c","o","m","/","2","8">>
  [] s = "https://example.com/29" -> <<"h","t","t","p","s",":","/","/","e","x","a","m","p","l","e",".","c","o","m","/","2","9">>
  [] s = "https://example.com/30" -> <<"h","t","t","p","s",":","/","/","e","x","a","m","p","l","e",".","c","o","m","/","3","0">>
  [] s = "https://example.com/31" -> <<"h","t","t","p","s",":","/","/","e","x","a","m","p","l","e",".","c","o","m","/","3","1">>
  [] s = "https://example.com/32" -> <<"h","t","t","p","s",":","/","/","e","x","a","m","p","l","e",".","c","o","m","/","3","2">>
  [] s = "https://example.com/33" -> <<"h","t","t","p","s",":","/","/","e","x","a","m","p","l","e",".","c","o","m","/","3","3">>
  [] s = "https://example.com/34" -> <<"h","t","t","p","s",":","/","/","e","x","a","m","p","l","e",".","c","o","m","/","3","4">>
  [] s = "https://example.com/35" -> <<"h","t","t","p","s",":","/","/","e","x","a","m","p","l","e",".","c","o","m","/","3","5">>
  [] s = "https://example.com/36" -> <<"h","t","t","p","s",":","/","/","e","x","a","m","p","l","e",".","c","o","m","/","3","6">>
  [] s = "https://example.com/37" -> <<"h","t","t","p","s",":","/","/","e","x","a","m","p","l","e",".","c","o","m","/","3","7">>
  [] s = "https://example.com/38" -> <<"h","t","t","p","s",":","/","/","e","x","a","m","p","l","e",".","c","o","m","/","3","8">>
  [] s = "https://example.com/39" -> <<"h","t","t","p","s",":","/","/","e","x","a","m","p","l","e",".","c","o","m","/","3","9">>
  [] s = "https://example.com/40" -> <<"h","t","t","p","s",":","/","/","e","x","a","m","p","l","e",".","c","o","m","/","4","0">>
  [] s = "https://example.com/41" -> <<"h","t","t","p","s",":","/","/","e","x","a","m","p","l","e",".","c","o","m","/","4","1">>
  [] s = "https://example.com/42" -> <<"h","t","t","p","s",":","/","/","e","x","a","m","p","l","e",".","c","o","m","/","4","2">>
  [] s = "https://example.com/43" -> <<"h","t","t","p","s",":","/","/","e","x","a","m","p","l","e",".","c","o","m","/","4","3">>
  [] s = "https://example.com/44" -> <<"h","t","t","p","s",":","/","/","e","x","a","m","p","l","e",".","c","o","m","/","4","4">>
  [] s = "https://example.com/45" -> <<"h","t","t","p","s",":","/","/","e","x","a","m","p","l","e",".","c","o","m","/","4","5">>
  [] s = "https://example.com/46" -> <<"h","t","t","p","s",":","/","/","e","x","a","m","p","l","e",".","c","o","m","/","4","6">>
  [] s = "https://example.com/47" -> <<"h","t","t","p","s",":","/","/","e","x","a","m","p","l","e",".","c","o","m","/","4","7">>
  [] s = "https://example.com/48" -> <<"h","t","t","p","s",":","/","/","e","x","a","m","p","l","e",".","c","o","m","/","4","8">>
  [] s = "https://example.com/49" -> <<"h","t","t","p","s",":","/","/","e","x","a","m","p","l","e",".","c","o","m","/","4","9">>
  [] s = "https://example.com/50" -> <<"h","t","t","p","s",":","/","/","e","x","a","m","p","l","e",".","c","o","m","/","5","0">>
  [] s = "https://example.com/51" -> <<"h","t","t","p","s",":","/","/","e","x","a","m","p","l","e",".","c","o","m","/","5","1">>
  [] s = "T" -> <<"T">>
  [] s = "D" -> <<"D">>
  [] s = "https://cdn.example/og.png" -> <<"h","t","t","p","s",":","/","/","c","d","n",".","e","x","a","m","p","l","e","/","o","g",".","p","n","g">>
  [] s = "lp2_meta" -> <<"l","p","2","_","m","e","t","a">>
  [] s = "superbrain_saved_queries" -> <<"s","u","p","e","r","b","r","a","i","n","_","s","a","v","e","d","_","q","u","e","r","i","e","s">>
  [] s = "meta" -> <<"m","e","t","a">>
  [] s = "www.youtu.be" -> <<"w","w","w",".","y","o","u","t","u",".","b","e">>
  [] s = "/channel/UC1" -> <<"/","c","h","a","n","n","e","l","/","U","C","1">>
  [] s = "/c/x" -> <<"/","c","/","x">>
  [] s = "/user/x" -> <<"/","u","s","e","r","/","x">>
  [] s = "abc" -> <<"a","b","c">>
  [] s = "/shorts/dQw4w9WgXcQ" -> <<"/","s","h","o","r","t","s","/","d","Q","w","4","w","9","W","g","X","c","Q">>
  [] s = "/embed/dQw4w9WgXcQ" -> <<"/","e","m","b","e","d","/","d","Q","w","4","w","9","W","g","X","c","Q">>
  [] s = "/channel/UC1/shorts/dQw4w9WgXcQ" -> <<"/","c","h","a","n","n","e","l","/","U","C","1","/","s","h","o","r","t","s","/","d","Q","w","4","w","9","W","g","X","c","Q">>
  [] s = "m.youtube.com" -> <<"m",".","y","o","u","t","u","b","e",".","c","o","m">>

StringPool ==
  { "",
    "www.youtu.be",
    "/channel/UC1",
    "/c/x",
    "/user/x",
    "abc",
    "/shorts/dQw4w9WgXcQ",
    "/embed/dQw4w9WgXcQ",
    "/channel/UC1/shorts/dQw4w9WgXcQ",
    "m.youtube.com",
    "&sz=32",
    "/",
    "/01",
    "/01/x",
    "/02",
    "/03",
    "/04",
    "/05",
    "/06",
    "/07",
    "/08",
    "/09",
    "/10",
    "/11",
    "/12",
    "/13",
    "/14",
    "/15",
    "/16",
    "/17",
    "/18",
    "/19",
    "/20",
    "/21",
    "/22",
    "/23",
    "/24",
    "/25",
    "/26",
    "/27",
    "/28",
    "/29",
    "/30",
    "/31",
    "/32",
    "/33",
    "/34",
    "/35",
    "/36",
    "/37",
    "/38",
    "/39",
    "/40",
    "/41",
    "/42",
    "/43",
    "/44",
    "/45",
    "/46",
    "/47",
    "/48",
    "/49",
    "/50",
    "/51",
    "/@",
    "/@chan",
    "/a",
    "/b",
    "/c",
    "/c/",
    "/channel/",
    "/d",
    "/dQw4w9WgXcQ",
    "/embed/",
    "/hqdefault.jpg",
    "/shorts/",
    "/user/",
    "/watch",
    "aHR0cCUzQSUyRiUyRg==",
    "aHR0cHMlM0ElMkYlMkZ3d3cueW91dHViZS5jb20lMkYlNDBjaGFu",
    "aHR0cHMlM0ElMkYlMkZ3d3cueW91dHViZS5jb20lMkZ3YXRjaCUzRnYlM0RkUXc0dzlXZ1hjUQ==",
    "aHR0cHMlM0ElMkYlMkZ5b3V0dS5iZSUyRmRRdzR3OVdnWGNR",
    "aHR0cHMlM0ElMkYlMkZleGFtcGxlLmNvbSUyRjA0",
    "aHR0cHMlM0ElMkYlMkZleGFtcGxlLmNvbSUyRjA1",
    "aHR0cHMlM0ElMkYlMkZleGFtcGxlLmNvbSUyRjA2",
    "aHR0cHMlM0ElMkYlMkZleGFtcGxlLmNvbSUyRjA3",
    "aHR0cHMlM0ElMkYlMkZleGFtcGxlLmNvbSUyRjA4",
    "aHR0cHMlM0ElMkYlMkZleGFtcGxlLmNvbSUyRjA5",
    "aHR0cHMlM0ElMkYlMkZleGFtcGxlLmNvbSUyRjAx",
    "aHR0cHMlM0ElMkYlMkZleGFtcGxlLmNvbSUyRjAxJTJGeA==",
    "aHR0cHMlM0ElMkYlMkZleGFtcGxlLmNvbSUyRjAy",
    "aHR0cHMlM0ElMkYlMkZleGFtcGxlLmNvbSUyRjAz",
    "aHR0cHMlM0ElMkYlMkZleGFtcGxlLmNvbSUyRjE0",
    "aHR0cHMlM0ElMkYlMkZleGFtcGxlLmNvbSUyRjE1",
    "aHR0cHMlM0ElMkYlMkZleGFtcGxlLmNvbSUyRjE2",
    "aHR0cHMlM0ElMkYlMkZleGFtcGxlLmNvbSUyRjE3",
    "aHR0cHMlM0ElMkYlMkZleGFtcGxlLmNvbSUyRjE4",
    "aHR0cHMlM0ElMkYlMkZleGFtcGxlLmNvbSUyRjE5",
    "aHR0cHMlM0ElMkYlMkZleGFtcGxlLmNvbSUyRjEw",
    "aHR0cHMlM0ElMkYlMkZleGFtcGxlLmNvbSUyRjEx",
    "aHR0cHMlM0ElMkYlMkZleGFtcGxlLmNvbSUyRjEy",
    "aHR0cHMlM0ElMkYlMkZleGFtcGxlLmNvbSUyRjEz",
    "aHR0cHMlM0ElMkYlMkZleGFtcGxlLmNvbSUyRjI0",
    "aHR0cHMlM0ElMkYlMkZleGFtcGxlLmNvbSUyRjI1",
    "aHR0cHMlM0ElMkYlMkZleGFtcGxlLmNvbSUyRjI2",
    "aHR0cHMlM0ElMkYlMkZleGFtcGxlLmNvbSUyRjI3",
    "aHR0cHMlM0ElMkYlMkZleGFtcGxlLmNvbSUyRjI4",
    "aHR0cHMlM0ElMkYlMkZleGFtcGxlLmNvbSUyRjI5",
    "aHR0cHMlM0ElMkYlMkZleGFtcGxlLmNvbSUyRjIw",
    "aHR0cHMlM0ElMkYlMkZleGFtcGxlLmNvbSUyRjIx",
    "aHR0cHMlM0ElMkYlMkZleGFtcGxlLmNvbSUyRjIy",
    "aHR0cHMlM0ElMkYlMkZleGFtcGxlLmNvbSUyRjIz",
    "aHR0cHMlM0ElMkYlMkZleGFtcGxlLmNvbSUyRjM0",
    "aHR0cHMlM0ElMkYlMkZleGFtcGxlLmNvbSUyRjM1",
    "aHR0cHMlM0ElMkYlMkZleGFtcGxlLmNvbSUyRjM2",
    "aHR0cHMlM0ElMkYlMkZleGFtcGxlLmNvbSUyRjM3",
    "aHR0cHMlM0ElMkYlMkZleGFtcGxlLmNvbSUyRjM4",
    "aHR0cHMlM0ElMkYlMkZleGFtcGxlLmNvbSUyRjM5",
    "aHR0cHMlM0ElMkYlMkZleGFtcGxlLmNvbSUyRjMw",
    "aHR0cHMlM0ElMkYlMkZleGFtcGxlLmNvbSUyRjMx",
    "aHR0cHMlM0ElMkYlMkZleGFtcGxlLmNvbSUyRjMy",
    "aHR0cHMlM0ElMkYlMkZleGFtcGxlLmNvbSUyRjMz",
    "aHR0cHMlM0ElMkYlMkZleGFtcGxlLmNvbSUyRjQ0",
    "aHR0cHMlM0ElMkYlMkZleGFtcGxlLmNvbSUyRjQ1",
    "aHR0cHMlM0ElMkYlMkZleGFtcGxlLmNvbSUyRjQ2",
    "aHR0cHMlM0ElMkYlMkZleGFtcGxlLmNvbSUyRjQ3",
    "aHR0cHMlM0ElMkYlMkZleGFtcGxlLmNvbSUyRjQ4",
    "aHR0cHMlM0ElMkYlMkZleGFtcGxlLmNvbSUyRjQ5",
    "aHR0cHMlM0ElMkYlMkZleGFtcGxlLmNvbSUyRjQw",
    "aHR0cHMlM0ElMkYlMkZleGFtcGxlLmNvbSUyRjQx",
    "aHR0cHMlM0ElMkYlMkZleGFtcGxlLmNvbSUyRjQy",
    "aHR0cHMlM0ElMkYlMkZleGFtcGxlLmNvbSUyRjQz",
    "aHR0cHMlM0ElMkYlMkZleGFtcGxlLmNvbSUyRjUw",
    "aHR0cHMlM0ElMkYlMkZleGFtcGxlLmNvbSUyRjUx",
    "aHR0cHMlM0ElMkYlMkZleGFtcGxlLmNvbSUyRmE=",
    "aHR0cHMlM0ElMkYlMkZleGFtcGxlLmNvbSUyRmI=",
    "aHR0cHMlM0ElMkYlMkZleGFtcGxlLmNvbSUyRmM=",
    "aHR0cHMlM0ElMkYlMkZleGFtcGxlLmNvbSUyRmQ=",
    "bilibili.com",
    "dQw4w9WgXcQ",
    "example.com",
    "https://i.ytimg.com/vi/",
    "https://i.ytimg.com/vi/dQw4w9WgXcQ/hqdefault.jpg",
    "https://www.google.com/s2/favicons?domain=",
    "https://www.google.com/s2/favicons?domain=example.com&sz=32",
    "https://www.google.com/s2/favicons?domain=www.youtube.com&sz=32",
    "https://www.google.com/s2/favicons?domain=youtu.be&sz=32",
    "lp2_",
    "lp2_aHR0cCUzQSUyRiUyRg==",
    "lp2_aHR0cHMlM0ElMkYlMkZ3d3cueW91dHViZS5jb20l",
    "lp2_aHR0cHMlM0ElMkYlMkZ5b3V0dS5iZSUyRmRRdzR3",
    "lp2_aHR0cHMlM0ElMkYlMkZleGFtcGxlLmNvbSUyRjA0",
    "lp2_aHR0cHMlM0ElMkYlMkZleGFtcGxlLmNvbSUyRjA1",
    "lp2_aHR0cHMlM0ElMkYlMkZleGFtcGxlLmNvbSUyRjA2",
    "lp2_aHR0cHMlM0ElMkYlMkZleGFtcGxlLmNvbSUyRjA3",
    "lp2_aHR0cHMlM0ElMkYlMkZleGFtcGxlLmNvbSUyRjA4",
    "lp2_aHR0cHMlM0ElMkYlMkZleGFtcGxlLmNvbSUyRjA5",
    "lp2_aHR0cHMlM0ElMkYlMkZleGFtcGxlLmNvbSUyRjAx",
    "lp2_aHR0cHMlM0ElMkYlMkZleGFtcGxlLmNvbSUyRjAy",
    "lp2_aHR0cHMlM0ElMkYlMkZleGFtcGxlLmNvbSUyRjAz",
    "lp2_aHR0cHMlM0ElMkYlMkZleGFtcGxlLmNvbSUyRjE0",
    "lp2_aHR0cHMlM0ElMkYlMkZleGFtcGxlLmNvbSUyRjE1",
    "lp2_aHR0cHMlM0ElMkYlMkZleGFtcGxlLmNvbSUyRjE2",
    "lp2_aHR0cHMlM0ElMkYlMkZleGFtcGxlLmNvbSUyRjE3",
    "lp2_aHR0cHMlM0ElMkYlMkZleGFtcGxlLmNvbSUyRjE4",
    "lp2_aHR0cHMlM0ElMkYlMkZleGFtcGxlLmNvbSUyRjE5",
    "lp2_aHR0cHMlM0ElMkYlMkZleGFtcGxlLmNvbSUyRjEw",
    "lp2_aHR0cHMlM0ElMkYlMkZleGFtcGxlLmNvbSUyRjEx",
    "lp2_aHR0cHMlM0ElMkYlMkZleGFtcGxlLmNvbSUyRjEy",
    "lp2_aHR0cHMlM0ElMkYlMkZleGFtcGxlLmNvbSUyRjEz",
    "lp2_aHR0cHMlM0ElMkYlMkZleGFtcGxlLmNvbSUyRjI0",
    "lp2_aHR0cHMlM0ElMkYlMkZleGFtcGxlLmNvbSUyRjI1",
    "lp2_aHR0cHMlM0ElMkYlMkZleGFtcGxlLmNvbSUyRjI2",
    "lp2_aHR0cHMlM0ElMkYlMkZleGFtcGxlLmNvbSUyRjI3",
    "lp2_aHR0cHMlM0ElMkYlMkZleGFtcGxlLmNvbSUyRjI4",
    "lp2_aHR0cHMlM0ElMkYlMkZleGFtcGxlLmNvbSUyRjI5",
    "lp2_aHR0cHMlM0ElMkYlMkZleGFtcGxlLmNvbSUyRjIw",
    "lp2_aHR0cHMlM0ElMkYlMkZleGFtcGxlLmNvbSUyRjIx",
    "lp2_aHR0cHMlM0ElMkYlMkZleGFtcGxlLmNvbSUyRjIy",
    "lp2_aHR0cHMlM0ElMkYlMkZleGFtcGxlLmNvbSUyRjIz",
    "lp2_aHR0cHMlM0ElMkYlMkZleGFtcGxlLmNvbSUyRjM0",
    "lp2_aHR0cHMlM0ElMkYlMkZleGFtcGxlLmNvbSUyRjM1",
    "lp2_aHR0cHMlM0ElMkYlMkZleGFtcGxlLmNvbSUyRjM2",
    "lp2_aHR0cHMlM0ElMkYlMkZleGFtcGxlLmNvbSUyRjM3",
    "lp2_aHR0cHMlM0ElMkYlMkZleGFtcGxlLmNvbSUyRjM4",
    "lp2_aHR0cHMlM0ElMkYlMkZleGFtcGxlLmNvbSUyRjM5",
    "lp2_aHR0cHMlM0ElMkYlMkZleGFtcGxlLmNvbSUyRjMw",
    "lp2_aHR0cHMlM0ElMkYlMkZleGFtcGxlLmNvbSUyRjMx",
    "lp2_aHR0cHMlM0ElMkYlMkZleGFtcGxlLmNvbSUyRjMy",
    "lp2_aHR0cHMlM0ElMkYlMkZleGFtcGxlLmNvbSUyRjMz",
    "lp2_aHR0cHMlM0ElMkYlMkZleGFtcGxlLmNvbSUyRjQ0",
    "lp2_aHR0cHMlM0ElMkYlMkZleGFtcGxlLmNvbSUyRjQ1",
    "lp2_aHR0cHMlM0ElMkYlMkZleGFtcGxlLmNvbSUyRjQ2",
    "lp2_aHR0cHMlM0ElMkYlMkZleGFtcGxlLmNvbSUyRjQ3",
    "lp2_aHR0cHMlM0ElMkYlMkZleGFtcGxlLmNvbSUyRjQ4",
    "lp2_aHR0cHMlM0ElMkYlMkZleGFtcGxlLmNvbSUyRjQ5",
    "lp2_aHR0cHMlM0ElMkYlMkZleGFtcGxlLmNvbSUyRjQw",
    "lp2_aHR0cHMlM0ElMkYlMkZleGFtcGxlLmNvbSUyRjQx",
    "lp2_aHR0cHMlM0ElMkYlMkZleGFtcGxlLmNvbSUyRjQy",
    "lp2_aHR0cHMlM0ElMkYlMkZleGFtcGxlLmNvbSUyRjQz",
    "lp2_aHR0cHMlM0ElMkYlMkZleGFtcGxlLmNvbSUyRjUw",
    "lp2_aHR0cHMlM0ElMkYlMkZleGFtcGxlLmNvbSUyRjUx",
    "lp2_aHR0cHMlM0ElMkYlMkZleGFtcGxlLmNvbSUyRmE=",
    "lp2_aHR0cHMlM0ElMkYlMkZleGFtcGxlLmNvbSUyRmI=",
    "lp2_aHR0cHMlM0ElMkYlMkZleGFtcGxlLmNvbSUyRmM=",
    "lp2_aHR0cHMlM0ElMkYlMkZleGFtcGxlLmNvbSUyRmQ=",
    "vimeo.com",
    "www.",
    "www.youtube.com",
    "youtu.be",
    "youtube.com",
    "https://www.youtube.com/watch?v=dQw4w9WgXcQ",
    "https://youtu.be/dQw4w9WgXcQ",
    "https://www.youtube.com/@chan",
    "https://example.com/a",
    "https://example.com/b",
    "https://example.com/c",
    "https://example.com/d",
    "https://example.com/01/x",
    "http://",
    "https://example.com/01",
    "https://example.com/02",
    "https://example.com/03",
    "https://example.com/04",
    "https://example.com/05",
    "https://example.com/06",
    "https://example.com/07",
    "https://example.com/08",
    "https://example.com/09",
    "https://example.com/10",
    "https://example.com/11",
    "https://example.com/12",
    "https://example.com/13",
    "https://example.com/14",
    "https://example.com/15",
    "https://example.com/16",
    "https://example.com/17",
    "https://example.com/18",
    "https://example.com/19",
    "https://example.com/20",
    "https://example.com/21",
    "https://example.com/22",
    "https://example.com/23",
    "https://example.com/24",
    "https://example.com/25",
    "https://example.com/26",
    "https://example.com/27",
    "https://example.com/28",
    "https://example.com/29",
    "https://example.com/30",
    "https://example.com/31",
    "https://example.com/32",
    "https://example.com/33",
    "https://example.com/34",
    "https://example.com/35",
    "https://example.com/36",
    "https://example.com/37",
    "https://example.com/38",
    "https://example.com/39",
    "https://example.com/40",
    "https://example.com/41",
    "https://example.com/42",
    "https://example.com/43",
    "https://example.com/44",
    "https://example.com/45",
    "https://example.com/46",
    "https://example.com/47",
    "https://example.com/48",
    "https://example.com/49",
    "https://example.com/50",
    "https://example.com/51",
    "T",
    "D",
    "https://cdn.example/og.png",
    "lp2_meta",
    "superbrain_saved_queries",
    "meta" }

\* the string whose characters are cs
Str(cs) == CHOOSE s \in StringPool : Chars(s) = cs

Min(a, b) == IF a < b THEN a ELSE b

\* String.prototype.slice(from) and slice(0, to), on characters (from 0-based)
SliceFrom(cs, from) == SubSeq(cs, from + 1, Len(cs))
SliceTo(cs, to) == SubSeq(cs, 1, Min(to, Len(cs)))

\* String.prototype.startsWith
StartsWith(cs, p) == Len(cs) >= Len(p) /\ SubSeq(cs, 1, Len(p)) = p

\* String.prototype.indexOf, 1-based; 0 when p does not occur in cs
IndexOf(cs, p) ==
  LET at == { i \in 1..(Len(cs) + 1) :
                i + Len(p) - 1 <= Len(cs) /\ SubSeq(cs, i, i + Len(p) - 1) = p }
  IN IF at = {} THEN 0 ELSE CHOOSE i \in at : \A j \in at : i <= j

\* str.replace(p, ''): the first occurrence of p removed
RemoveFirst(cs, p) ==
  LET i == IndexOf(cs, p)
  IN IF i = 0 THEN cs ELSE SubSeq(cs, 1, i - 1) \o SubSeq(cs, i + Len(p), Len(cs))

\* str.split('/')[0]: the characters before the first "/"
BeforeSlash(cs) ==
  LET i == IndexOf(cs, <<"/">>) IN IF i = 0 THEN cs ELSE SubSeq(cs, 1, i - 1)

\* ------------------------------------------------------------------------
\* The URLs of the model and what the platform's URL parser and encoders
\* return for them.
\* ------------------------------------------------------------------------
U_VIDEO == "https://www.youtube.com/watch?v=dQw4w9WgXcQ"
U_SHORT == "https://youtu.be/dQw4w9WgXcQ"
U_CHANNEL == "https://www.youtube.com/@chan"
U_PAGE == "https://example.com/a"
U_PAGE_B == "https://example.com/b"
U_PAGE_C == "https://example.com/c"
U_PAGE_D == "https://example.com/d"
\* a page below the first of LRU_PAGES
U_LONG == "https://example.com/01/x"
\* an href the URL parser rejects: anchor.href then returns the attribute as is
U_BAD == "http://"

\* CACHE_MAX + 1 pages of one site, in the order in which they are cached
LRU_PAGES ==
  << "https://example.com/01", "https://example.com/02", "https://example.com/03",
     "https://example.com/04", "https://example.com/05", "https://example.com/06",
     "https://example.com/07", "https://example.com/08", "https://example.com/09",
     "https://example.com/10", "https://example.com/11", "https://example.com/12",
     "https://example.com/13", "https://example.com/14", "https://example.com/15",
     "https://example.com/16", "https://example.com/17", "https://example.com/18",
     "https://example.com/19", "https://example.com/20", "https://example.com/21",
     "https://example.com/22", "https://example.com/23", "https://example.com/24",
     "https://example.com/25", "https://example.com/26", "https://example.com/27",
     "https://example.com/28", "https://example.com/29", "https://example.com/30",
     "https://example.com/31", "https://example.com/32", "https://example.com/33",
     "https://example.com/34", "https://example.com/35", "https://example.com/36",
     "https://example.com/37", "https://example.com/38", "https://example.com/39",
     "https://example.com/40", "https://example.com/41", "https://example.com/42",
     "https://example.com/43", "https://example.com/44", "https://example.com/45",
     "https://example.com/46", "https://example.com/47", "https://example.com/48",
     "https://example.com/49", "https://example.com/50", "https://example.com/51" >>

\* new URL(url): ok = FALSE when the constructor throws TypeError
ParseURL(url) ==
  CASE url = U_VIDEO ->
       [ok |-> TRUE, hostname |-> "www.youtube.com", pathname |-> "/watch", v |-> "dQw4w9WgXcQ"]
  [] url = U_SHORT ->
       [ok |-> TRUE, hostname |-> "youtu.be", pathname |-> "/dQw4w9WgXcQ", v |-> ""]
  [] url = U_CHANNEL ->
       [ok |-> TRUE, hostname |-> "www.youtube.com", pathname |-> "/@chan", v |-> ""]
  [] url = U_PAGE ->
       [ok |-> TRUE, hostname |-> "example.com", pathname |-> "/a", v |-> ""]
  [] url = U_PAGE_B ->
       [ok |-> TRUE, hostname |-> "example.com", pathname |-> "/b", v |-> ""]
  [] url = U_PAGE_C ->
       [ok |-> TRUE, hostname |-> "example.com", pathname |-> "/c", v |-> ""]
  [] url = U_PAGE_D ->
       [ok |-> TRUE, hostname |-> "example.com", pathname |-> "/d", v |-> ""]
  [] url = U_LONG ->
       [ok |-> TRUE, hostname |-> "example.com", pathname |-> "/01/x", v |-> ""]
  [] url = "https://example.com/01" ->
       [ok |-> TRUE, hostname |-> "example.com", pathname |-> "/01", v |-> ""]
  [] url = "https://example.com/02" ->
       [ok |-> TRUE, hostname |-> "example.com", pathname |-> "/02", v |-> ""]
  [] url = "https://example.com/03" ->
       [ok |-> TRUE, hostname |-> "example.com", pathname |-> "/03", v |-> ""]
  [] url = "https://example.com/04" ->
       [ok |-> TRUE, hostname |-> "example.com", pathname |-> "/04", v |-> ""]
  [] url = "https://example.com/05" ->
       [ok |-> TRUE, hostname |-> "example.com", pathname |-> "/05", v |-> ""]
  [] url = "https://example.com/06" ->
       [ok |-> TRUE, hostname |-> "example.com", pathname |-> "/06", v |-> ""]
  [] url = "https://example.com/07" ->
       [ok |-> TRUE, hostname |-> "example.com", pathname |-> "/07", v |-> ""]
  [] url = "https://example.com/08" ->
       [ok |-> TRUE, hostname |-> "example.com", pathname |-> "/08", v |-> ""]
  [] url = "https://example.com/09" ->
       [ok |-> TRUE, hostname |-> "example.com", pathname |-> "/09", v |-> ""]
  [] url = "https://example.com/10" ->
       [ok |-> TRUE, hostname |-> "example.com", pathname |-> "/10", v |-> ""]
  [] url = "https://example.com/11" ->
       [ok |-> TRUE, hostname |-> "example.com", pathname |-> "/11", v |-> ""]
  [] url = "https://example.com/12" ->
       [ok |-> TRUE, hostname |-> "example.com", pathname |-> "/12", v |-> ""]
  [] url = "https://example.com/13" ->
       [ok |-> TRUE, hostname |-> "example.com", pathname |-> "/13", v |-> ""]
  [] url = "https://example.com/14" ->
       [ok |-> TRUE, hostname |-> "example.com", pathname |-> "/14", v |-> ""]
  [] url = "https://example.com/15" ->
       [ok |-> TRUE, hostname |-> "example.com", pathname |-> "/15", v |-> ""]
  [] url = "https://example.com/16" ->
       [ok |-> TRUE, hostname |-> "example.com", pathname |-> "/16", v |-> ""]
  [] url = "https://example.com/17" ->
       [ok |-> TRUE, hostname |-> "example.com", pathname |-> "/17", v |-> ""]
  [] url = "https://example.com/18" ->
       [ok |-> TRUE, hostname |-> "example.com", pathname |-> "/18", v |-> ""]
  [] url = "https://example.com/19" ->
       [ok |-> TRUE, hostname |-> "example.com", pathname |-> "/19", v |-> ""]
  [] url = "https://example.com/20" ->
       [ok |-> TRUE, hostname |-> "example.com", pathname |-> "/20", v |-> ""]
  [] url = "https://example.com/21" ->
       [ok |-> TRUE, hostname |-> "example.com", pathname |-> "/21", v |-> ""]
  [] url = "https://example.com/22" ->
       [ok |-> TRUE, hostname |-> "example.com", pathname |-> "/22", v |-> ""]
  [] url = "https://example.com/23" ->
       [ok |-> TRUE, hostname |-> "example.com", pathname |-> "/23", v |-> ""]
  [] url = "https://example.com/24" ->
       [ok |-> TRUE, hostname |-> "example.com", pathname |-> "/24", v |-> ""]
  [] url = "https://example.com/25" ->
       [ok |-> TRUE, hostname |-> "example.com", pathname |-> "/25", v |-> ""]
  [] url = "https://example.com/26" ->
       [ok |-> TRUE, hostname |-> "example.com", pathname |-> "/26", v |-> ""]
  [] url = "https://example.com/27" ->
       [ok |-> TRUE, hostname |-> "example.com", pathname |-> "/27", v |-> ""]
  [] url = "https://example.com/28" ->
       [ok |-> TRUE, hostname |-> "example.com", pathname |-> "/28", v |-> ""]
  [] url = "https://example.com/29" ->
       [ok |-> TRUE, hostname |-> "example.com", pathname |-> "/29", v |-> ""]
  [] url = "https://example.com/30" ->
       [ok |-> TRUE, hostname |-> "example.com", pathname |-> "/30", v |-> ""]
  [] url = "https://example.com/31" ->
       [ok |-> TRUE, hostname |-> "example.com", pathname |-> "/31", v |-> ""]
  [] url = "https://example.com/32" ->
       [ok |-> TRUE, hostname |-> "example.com", pathname |-> "/32", v |-> ""]
  [] url = "https://example.com/33" ->
       [ok |-> TRUE, hostname |-> "example.com", pathname |-> "/33", v |-> ""]
  [] url = "https://example.com/34" ->
       [ok |-> TRUE, hostname |-> "example.com", pathname |-> "/34", v |-> ""]
  [] url = "https://example.com/35" ->
       [ok |-> TRUE, hostname |-> "example.com", pathname |-> "/35", v |-> ""]
  [] url = "https://example.com/36" ->
       [ok |-> TRUE, hostname |-> "example.com", pathname |-> "/36", v |-> ""]
  [] url = "https://example.com/37" ->
       [ok |-> TRUE, hostname |-> "example.com", pathname |-> "/37", v |-> ""]
  [] url = "https://example.com/38" ->
       [ok |-> TRUE, hostname |-> "example.com", pathname |-> "/38", v |-> ""]
  [] url = "https://example.com/39" ->
       [ok |-> TRUE, hostname |-> "example.com", pathname |-> "/39", v |-> ""]
  [] url = "https://example.com/40" ->
       [ok |-> TRUE, hostname |-> "example.com", pathname |-> "/40", v |-> ""]
  [] url = "https://example.com/41" ->
       [ok |-> TRUE, hostname |-> "example.com", pathname |-> "/41", v |-> ""]
  [] url = "https://example.com/42" ->
       [ok |-> TRUE, hostname |-> "example.com", pathname |-> "/42", v |-> ""]
  [] url = "https://example.com/43" ->
       [ok |-> TRUE, hostname |-> "example.com", pathname |-> "/43", v |-> ""]
  [] url = "https://example.com/44" ->
       [ok |-> TRUE, hostname |-> "example.com", pathname |-> "/44", v |-> ""]
  [] url = "https://example.com/45" ->
       [ok |-> TRUE, hostname |-> "example.com", pathname |-> "/45", v |-> ""]
  [] url = "https://example.com/46" ->
       [ok |-> TRUE, hostname |-> "example.com", pathname |-> "/46", v |-> ""]
  [] url = "https://example.com/47" ->
       [ok |-> TRUE, hostname |-> "example.com", pathname |-> "/47", v |-> ""]
  [] url = "https://example.com/48" ->
       [ok |-> TRUE, hostname |-> "example.com", pathname |-> "/48", v |-> ""]
  [] url = "https://example.com/49" ->
       [ok |-> TRUE, hostname |-> "example.com", pathname |-> "/49", v |-> ""]
  [] url = "https://example.com/50" ->
       [ok |-> TRUE, hostname |-> "example.com", pathname |-> "/50", v |-> ""]
  [] url = "https://example.com/51" ->
       [ok |-> TRUE, hostname |-> "example.com", pathname |-> "/51", v |-> ""]
  [] url = "https://www.youtube.com/" ->
       [ok |-> TRUE, hostname |-> "www.youtube.com", pathname |-> "/", v |-> ""]
  [] url = "https://youtube.com/" ->
       [ok |-> TRUE, hostname |-> "youtube.com", pathname |-> "/", v |-> ""]
  [] url = "https://youtu.be/" ->
       [ok |-> TRUE, hostname |-> "youtu.be", pathname |-> "/", v |-> ""]
  [] url = "https://www.youtu.be/" ->
       [ok |-> TRUE, hostname |-> "www.youtu.be", pathname |-> "/", v |-> ""]
  [] url = "https://www.youtube.com/channel/UC1" ->
       [ok |-> TRUE, hostname |-> "www.youtube.com", pathname |-> "/channel/UC1", v |-> ""]
  [] url = "https://www.youtube.com/c/x" ->
       [ok |-> TRUE, hostname |-> "www.youtube.com", pathname |-> "/c/x", v |-> ""]
  [] url = "https://youtube.com/user/x" ->
       [ok |-> TRUE, hostname |-> "youtube.com", pathname |-> "/user/x", v |-> ""]
  [] url = "https://www.youtube.com/@chan?v=dQw4w9WgXcQ" ->
       [ok |-> TRUE, hostname |-> "www.youtube.com", pathname |-> "/@chan", v |-> "dQw4w9WgXcQ"]
  [] url = "https://www.youtube.com/@chan?v=abc" ->
       [ok |-> TRUE, hostname |-> "www.youtube.com", pathname |-> "/@chan", v |-> "abc"]
  [] url = "https://www.youtube.com/?v=dQw4w9WgXcQ" ->
       [ok |-> TRUE, hostname |-> "www.youtube.com", pathname |-> "/", v |-> "dQw4w9WgXcQ"]
  [] url = "https://youtu.be/?v=dQw4w9WgXcQ" ->
       [ok |-> TRUE, hostname |-> "youtu.be", pathname |-> "/", v |-> "dQw4w9WgXcQ"]
  [] url = "https://youtu.be/@chan" ->
       [ok |-> TRUE, hostname |-> "youtu.be", pathname |-> "/@chan", v |-> ""]
  [] url = "https://youtu.be/c/x" ->
       [ok |-> TRUE, hostname |-> "youtu.be", pathname |-> "/c/x", v |-> ""]
  [] url = "https://www.youtube.com/shorts/dQw4w9WgXcQ" ->
       [ok |-> TRUE, hostname |-> "www.youtube.com", pathname |-> "/shorts/dQw4w9WgXcQ", v |-> ""]
  [] url = "https://www.youtube.com/shorts/" ->
       [ok |-> TRUE, hostname |-> "www.youtube.com", pathname |-> "/shorts/", v |-> ""]
  [] url = "https://www.youtube.com/embed/dQw4w9WgXcQ" ->
       [ok |-> TRUE, hostname |-> "www.youtube.com", pathname |-> "/embed/dQw4w9WgXcQ", v |-> ""]
  [] url = "https://www.youtube.com/channel/UC1/shorts/dQw4w9WgXcQ" ->
       [ok |-> TRUE, hostname |-> "www.youtube.com", pathname |-> "/channel/UC1/shorts/dQw4w9WgXcQ", v |-> ""]
  [] url = "https://www.youtube.com/watch" ->
       [ok |-> TRUE, hostname |-> "www.youtube.com", pathname |-> "/watch", v |-> ""]
  [] url = "https://m.youtube.com/@chan" ->
       [ok |-> TRUE, hostname |-> "m.youtube.com", pathname |-> "/@chan", v |-> ""]
  [] url = "https://example.com/@chan" ->
       [ok |-> TRUE, hostname |-> "example.com", pathname |-> "/@chan", v |-> ""]
  [] url = "https://example.com/" ->
       [ok |-> TRUE, hostname |-> "example.com", pathname |-> "/", v |-> ""]
  [] OTHER -> [ok |-> FALSE, hostname |-> "", pathname |-> "", v |-> ""]

\* btoa(encodeURIComponent(url))
BtoaEncodeURIComponent(url) ==
  CASE url = U_VIDEO ->
       "aHR0cHMlM0ElMkYlMkZ3d3cueW91dHViZS5jb20lMkZ3YXRjaCUzRnYlM0RkUXc0dzlXZ1hjUQ=="
  [] url = U_SHORT ->
       "aHR0cHMlM0ElMkYlMkZ5b3V0dS5iZSUyRmRRdzR3OVdnWGNR"
  [] url = U_CHANNEL ->
       "aHR0cHMlM0ElMkYlMkZ3d3cueW91dHViZS5jb20lMkYlNDBjaGFu"
  [] url = U_PAGE ->
       "aHR0cHMlM0ElMkYlMkZleGFtcGxlLmNvbSUyRmE="
  [] url = U_PAGE_B ->
       "aHR0cHMlM0ElMkYlMkZleGFtcGxlLmNvbSUyRmI="
  [] url = U_PAGE_C ->
       "aHR0cHMlM0ElMkYlMkZleGFtcGxlLmNvbSUyRmM="
  [] url = U_PAGE_D ->
       "aHR0cHMlM0ElMkYlMkZleGFtcGxlLmNvbSUyRmQ="
  [] url = U_LONG ->
       "aHR0cHMlM0ElMkYlMkZleGFtcGxlLmNvbSUyRjAxJTJGeA=="
  [] url = U_BAD ->
       "aHR0cCUzQSUyRiUyRg=="
  [] url = "https://example.com/01" ->
       "aHR0cHMlM0ElMkYlMkZleGFtcGxlLmNvbSUyRjAx"
  [] url = "https://example.com/02" ->
       "aHR0cHMlM0ElMkYlMkZleGFtcGxlLmNvbSUyRjAy"
  [] url = "https://example.com/03" ->
       "aHR0cHMlM0ElMkYlMkZleGFtcGxlLmNvbSUyRjAz"
  [] url = "https://example.com/04" ->
       "aHR0cHMlM0ElMkYlMkZleGFtcGxlLmNvbSUyRjA0"
  [] url = "https://example.com/05" ->
       "aHR0cHMlM0ElMkYlMkZleGFtcGxlLmNvbSUyRjA1"
  [] url = "https://example.com/06" ->
       "aHR0cHMlM0ElMkYlMkZleGFtcGxlLmNvbSUyRjA2"
  [] url = "https://example.com/07" ->
       "aHR0cHMlM0ElMkYlMkZleGFtcGxlLmNvbSUyRjA3"
  [] url = "https://example.com/08" ->
       "aHR0cHMlM0ElMkYlMkZleGFtcGxlLmNvbSUyRjA4"
  [] url = "https://example.com/09" ->
       "aHR0cHMlM0ElMkYlMkZleGFtcGxlLmNvbSUyRjA5"
  [] url = "https://example.com/10" ->
       "aHR0cHMlM0ElMkYlMkZleGFtcGxlLmNvbSUyRjEw"
  [] url = "https://example.com/11" ->
       "aHR0cHMlM0ElMkYlMkZleGFtcGxlLmNvbSUyRjEx"
  [] url = "https://example.com/12" ->
       "aHR0cHMlM0ElMkYlMkZleGFtcGxlLmNvbSUyRjEy"
  [] url = "https://example.com/13" ->
       "aHR0cHMlM0ElMkYlMkZleGFtcGxlLmNvbSUyRjEz"
  [] url = "https://example.com/14" ->
       "aHR0cHMlM0ElMkYlMkZleGFtcGxlLmNvbSUyRjE0"
  [] url = "https://example.com/15" ->
       "aHR0cHMlM0ElMkYlMkZleGFtcGxlLmNvbSUyRjE1"
  [] url = "https://example.com/16" ->
       "aHR0cHMlM0ElMkYlMkZleGFtcGxlLmNvbSUyRjE2"
  [] url = "https://example.com/17" ->
       "aHR0cHMlM0ElMkYlMkZleGFtcGxlLmNvbSUyRjE3"
  [] url = "https://example.com/18" ->
       "aHR0cHMlM0ElMkYlMkZleGFtcGxlLmNvbSUyRjE4"
  [] url = "https://example.com/19" ->
       "aHR0cHMlM0ElMkYlMkZleGFtcGxlLmNvbSUyRjE5"
  [] url = "https://example.com/20" ->
       "aHR0cHMlM0ElMkYlMkZleGFtcGxlLmNvbSUyRjIw"
  [] url = "https://example.com/21" ->
       "aHR0cHMlM0ElMkYlMkZleGFtcGxlLmNvbSUyRjIx"
  [] url = "https://example.com/22" ->
       "aHR0cHMlM0ElMkYlMkZleGFtcGxlLmNvbSUyRjIy"
  [] url = "https://example.com/23" ->
       "aHR0cHMlM0ElMkYlMkZleGFtcGxlLmNvbSUyRjIz"
  [] url = "https://example.com/24" ->
       "aHR0cHMlM0ElMkYlMkZleGFtcGxlLmNvbSUyRjI0"
  [] url = "https://example.com/25" ->
       "aHR0cHMlM0ElMkYlMkZleGFtcGxlLmNvbSUyRjI1"
  [] url = "https://example.com/26" ->
       "aHR0cHMlM0ElMkYlMkZleGFtcGxlLmNvbSUyRjI2"
  [] url = "https://example.com/27" ->
       "aHR0cHMlM0ElMkYlMkZleGFtcGxlLmNvbSUyRjI3"
  [] url = "https://example.com/28" ->
       "aHR0cHMlM0ElMkYlMkZleGFtcGxlLmNvbSUyRjI4"
  [] url = "https://example.com/29" ->
       "aHR0cHMlM0ElMkYlMkZleGFtcGxlLmNvbSUyRjI5"
  [] url = "https://example.com/30" ->
       "aHR0cHMlM0ElMkYlMkZleGFtcGxlLmNvbSUyRjMw"
  [] url = "https://example.com/31" ->
       "aHR0cHMlM0ElMkYlMkZleGFtcGxlLmNvbSUyRjMx"
  [] url = "https://example.com/32" ->
       "aHR0cHMlM0ElMkYlMkZleGFtcGxlLmNvbSUyRjMy"
  [] url = "https://example.com/33" ->
       "aHR0cHMlM0ElMkYlMkZleGFtcGxlLmNvbSUyRjMz"
  [] url = "https://example.com/34" ->
       "aHR0cHMlM0ElMkYlMkZleGFtcGxlLmNvbSUyRjM0"
  [] url = "https://example.com/35" ->
       "aHR0cHMlM0ElMkYlMkZleGFtcGxlLmNvbSUyRjM1"
  [] url = "https://example.com/36" ->
       "aHR0cHMlM0ElMkYlMkZleGFtcGxlLmNvbSUyRjM2"
  [] url = "https://example.com/37" ->
       "aHR0cHMlM0ElMkYlMkZleGFtcGxlLmNvbSUyRjM3"
  [] url = "https://example.com/38" ->
       "aHR0cHMlM0ElMkYlMkZleGFtcGxlLmNvbSUyRjM4"
  [] url = "https://example.com/39" ->
       "aHR0cHMlM0ElMkYlMkZleGFtcGxlLmNvbSUyRjM5"
  [] url = "https://example.com/40" ->
       "aHR0cHMlM0ElMkYlMkZleGFtcGxlLmNvbSUyRjQw"
  [] url = "https://example.com/41" ->
       "aHR0cHMlM0ElMkYlMkZleGFtcGxlLmNvbSUyRjQx"
  [] url = "https://example.com/42" ->
       "aHR0cHMlM0ElMkYlMkZleGFtcGxlLmNvbSUyRjQy"
  [] url = "https://example.com/43" ->
       "aHR0cHMlM0ElMkYlMkZleGFtcGxlLmNvbSUyRjQz"
  [] url = "https://example.com/44" ->
       "aHR0cHMlM0ElMkYlMkZleGFtcGxlLmNvbSUyRjQ0"
  [] url = "https://example.com/45" ->
       "aHR0cHMlM0ElMkYlMkZleGFtcGxlLmNvbSUyRjQ1"
  [] url = "https://example.com/46" ->
       "aHR0cHMlM0ElMkYlMkZleGFtcGxlLmNvbSUyRjQ2"
  [] url = "https://example.com/47" ->
       "aHR0cHMlM0ElMkYlMkZleGFtcGxlLmNvbSUyRjQ3"
  [] url = "https://example.com/48" ->
       "aHR0cHMlM0ElMkYlMkZleGFtcGxlLmNvbSUyRjQ4"
  [] url = "https://example.com/49" ->
       "aHR0cHMlM0ElMkYlMkZleGFtcGxlLmNvbSUyRjQ5"
  [] url = "https://example.com/50" ->
       "aHR0cHMlM0ElMkYlMkZleGFtcGxlLmNvbSUyRjUw"
  [] url = "https://example.com/51" ->
       "aHR0cHMlM0ElMkYlMkZleGFtcGxlLmNvbSUyRjUx"

\* ------------------------------------------------------------------------
\* VideoThumb (src/link-preview.js:187-270)
\* ------------------------------------------------------------------------
IdChars ==
  { "a","b","c","d","e","f","g","h","i","j","k","l","m","n","o","p","q","r",
    "s","t","u","v","w","x","y","z","A","B","C","D","E","F","G","H","I","J",
    "K","L","M","N","O","P","Q","R","S","T","U","V","W","X","Y","Z","0","1",
    "2","3","4","5","6","7","8","9","_","-" }

\* /^[a-zA-Z0-9_-]{11}$/.test(videoId)
IsVideoId(cs) == Len(cs) = VIDEO_ID_LEN /\ \A i \in 1..Len(cs) : cs[i] \in IdChars

\* u.hostname.replace('www.', '')
HostOf(u) == RemoveFirst(Chars(u.hostname), Chars("www."))

IsYouTube(host) == host = Chars("youtube.com") \/ host = Chars("youtu.be")

\* the videoId of extract; <<>> stands for null and for ''
VideoIdOf(u, host) ==
  LET path == Chars(u.pathname)
  IN IF host = Chars("youtu.be") THEN BeforeSlash(SliceFrom(path, 1))
     ELSE IF u.v # "" THEN Chars(u.v)
     ELSE IF StartsWith(path, Chars("/shorts/"))
            THEN BeforeSlash(SliceFrom(path, Len(Chars("/shorts/"))))
     ELSE IF StartsWith(path, Chars("/embed/"))
            THEN BeforeSlash(SliceFrom(path, Len(Chars("/embed/"))))
     ELSE <<>>

\* VideoThumb.extract(url): the thumbnail URL, "" for null
extract(url) ==
  LET u == ParseURL(url)
      host == HostOf(u)
      videoId == VideoIdOf(u, host)
  IN IF ~u.ok THEN ""
     ELSE IF IsYouTube(host) /\ videoId # <<>> /\ IsVideoId(videoId)
       THEN Str(Chars("https://i.ytimg.com/vi/") \o videoId \o Chars("/hqdefault.jpg"))
       ELSE ""

\* isChannelPage deciding by the path alone, without the test for a video id
isChannelPageNoVideoTest(url) ==
  LET u == ParseURL(url)
      host == HostOf(u)
      path == Chars(u.pathname)
      isChannel == \/ StartsWith(path, Chars("/@"))
                   \/ StartsWith(path, Chars("/channel/"))
                   \/ StartsWith(path, Chars("/c/"))
                   \/ StartsWith(path, Chars("/user/"))
                   \/ path = Chars("/") \/ path = <<>>
  IN u.ok /\ IsYouTube(host) /\ isChannel

\* VideoThumb.isChannelPage(url)
isChannelPage(url) ==
  LET u == ParseURL(url)
      host == HostOf(u)
      path == Chars(u.pathname)
      isChannel == \/ StartsWith(path, Chars("/@"))
                   \/ StartsWith(path, Chars("/channel/"))
                   \/ StartsWith(path, Chars("/c/"))
                   \/ StartsWith(path, Chars("/user/"))
                   \/ path = Chars("/") \/ path = <<>>
      hasVideoId == \/ u.v # ""
                    \/ StartsWith(path, Chars("/shorts/"))
                    \/ StartsWith(path, Chars("/embed/"))
                    \/ (host = Chars("youtu.be") /\ Len(path) > 1)
  IN u.ok /\ IsYouTube(host) /\ isChannel /\ ~hasVideoId

\* extract and isChannelPage of the model's URLs, computed once
\* ModelURLs: the URLs asked of the RequestQueue; CacheURLs: those and the
\* pages that fill the cache
ModelURLs == {U_VIDEO, U_SHORT, U_CHANNEL, U_PAGE, U_PAGE_B, U_PAGE_C, U_PAGE_D, U_BAD}
CacheURLs == ModelURLs \cup {U_LONG} \cup {LRU_PAGES[i] : i \in 1..Len(LRU_PAGES)}
extractOf == [url \in CacheURLs |-> extract(url)]
isChannelPageOf == [url \in CacheURLs |-> isChannelPage(url)]

\* URLs of the video platforms and of other sites that take extract and
\* isChannelPage through each of their branches: hosts with and without
\* www., channel paths with and without a v parameter, video paths, the root
ThumbProbes ==
  { U_VIDEO, U_SHORT, U_CHANNEL, U_PAGE, U_BAD,
    "https://www.youtube.com/",
    "https://youtube.com/",
    "https://youtu.be/",
    "https://www.youtu.be/",
    "https://www.youtube.com/channel/UC1",
    "https://www.youtube.com/c/x",
    "https://youtube.com/user/x",
    "https://www.youtube.com/@chan?v=dQw4w9WgXcQ",
    "https://www.youtube.com/@chan?v=abc",
    "https://www.youtube.com/?v=dQw4w9WgXcQ",
    "https://youtu.be/?v=dQw4w9WgXcQ",
    "https://youtu.be/@chan",
    "https://youtu.be/c/x",
    "https://www.youtube.com/shorts/dQw4w9WgXcQ",
    "https://www.youtube.com/shorts/",
    "https://www.youtube.com/embed/dQw4w9WgXcQ",
    "https://www.youtube.com/channel/UC1/shorts/dQw4w9WgXcQ",
    "https://www.youtube.com/watch",
    "https://m.youtube.com/@chan",
    "https://example.com/@chan",
    "https://example.com/" }
\* what the two functions return for them, computed once
probeOf == [url \in ThumbProbes |-> [image |-> extract(url), isChannel |-> isChannelPage(url)]]

\* ------------------------------------------------------------------------
\* localStorage: a function from the keys present to the strings stored
\* ------------------------------------------------------------------------
\* JSON.stringify / JSON.parse: the stored string wraps the value it encodes
JSONstringify(x) == [json |-> x]
JSONparse(raw) == raw.json

getItemPresent(st, key) == key \in DOMAIN st
getItem(st, key) == st[key]
setItem(st, key, raw) == [k \in DOMAIN st \cup {key} |-> IF k = key THEN raw ELSE st[k]]
removeItem(st, key) == [k \in DOMAIN st \ {key} |-> st[k]]

\* ------------------------------------------------------------------------
\* LRUCache (src/link-preview.js:49-182).  A cache state is a record
\* c = [mem, store, meta, sets]: _mem as the sequence of its [url, entry]
\* pairs in Map order, localStorage, _meta, and sets, the history of set:
\* for every url set so far the time and the data of its latest set.
\* ------------------------------------------------------------------------
\* Map.prototype.has / delete / set on the sequence of pairs; set keeps the
\* place of a key that is already present
MapHas(m, url) == \E i \in 1..Len(m) : m[i].url = url
MapGet(m, url) == m[CHOOSE i \in 1..Len(m) : m[i].url = url].entry
MapDelete(m, url) == SelectSeq(m, LAMBDA p : p.url # url)
MapSet(m, url, entry) ==
  IF MapHas(m, url)
    THEN [i \in 1..Len(m) |-> IF m[i].url = url THEN [url |-> url, entry |-> entry] ELSE m[i]]
    ELSE Append(m, [url |-> url, entry |-> entry])

\* _makeKey(url): the catch branch is not reachable, btoa gets ASCII only
makeKey(url) ==
  Str(Chars(CACHE_KEY_PREFIX) \o SliceTo(Chars(BtoaEncodeURIComponent(url)), KEY_SLICE))

makeKeyOf == [url \in CacheURLs |-> makeKey(url)]

\* _saveMeta() writing the index under a key without the cache's prefix
saveMetaBareKey(c, failMeta) ==
  IF failMeta THEN c
  ELSE [c EXCEPT !.store = setItem(c.store, "meta", JSONstringify(c.meta))]

\* _saveMeta(): a failing write (failMeta) is ignored
saveMeta(c, failMeta) ==
  IF failMeta THEN c
  ELSE [c EXCEPT !.store = setItem(c.store, CACHE_META_KEY, JSONstringify(c.meta))]

\* the filter of _evict over the keys of _meta, from left to right: a key
\* is kept when its item is present and not older than the TTL
RECURSIVE evictExpired(_, _, _)
evictExpired(st, keys, now) ==
  IF keys = <<>> THEN [store |-> st, meta |-> <<>>]
  ELSE LET key == Head(keys)
           present == getItemPresent(st, key)
           expired == present /\ now - JSONparse(getItem(st, key)).ts > CACHE_TTL
           st1 == IF expired THEN removeItem(st, key) ELSE st
           rest == evictExpired(st1, Tail(keys), now)
       IN IF present /\ ~expired
            THEN [rest EXCEPT !.meta = <<key>> \o rest.meta]
            ELSE rest

\* the while loop of _evict: oldest keys first, down to CACHE_MAX - 10 keys
RECURSIVE evictExcess(_)
evictExcess(c) ==
  IF Len(c.meta) > CACHE_MAX - CACHE_EVICT_MARGIN
    THEN evictExcess([c EXCEPT !.meta = Tail(c.meta),
                               !.store = removeItem(c.store, Head(c.meta))])
    ELSE c

\* LRUCache._evict()
evict(c, now, failMeta) ==
  LET f == evictExpired(c.store, c.meta, now)
  IN saveMeta(evictExcess([c EXCEPT !.store = f.store, !.meta = f.meta]), failMeta)

\* Descriptions too long to list by their characters; a quarter of the
\* byte budget is half of the characters the budget allows
D_UNDER == "a description of CACHE_MAX_BYTES / 4 - 300 characters"
D_EDGE == "a description of CACHE_MAX_BYTES / 4 - 250 characters"
D_OVER == "a description of CACHE_MAX_BYTES / 4 characters"

\* the lengths of the strings listed with their characters, and whether
\* they start with the cache's prefix, computed once
lengthOf == [s \in StringPool |-> Len(Chars(s))]
startsWithPrefixOf ==
  [s \in StringPool |-> StartsWith(Chars(s), Chars(CACHE_KEY_PREFIX))]

\* String.prototype.length
Length(s) ==
  CASE s = D_UNDER -> CACHE_MAX_BYTES \div 4 - 300
    [] s = D_EDGE -> CACHE_MAX_BYTES \div 4 - 250
    [] s = D_OVER -> CACHE_MAX_BYTES \div 4
    [] OTHER -> lengthOf[s]

\* the number of decimal digits of n >= 0
RECURSIVE Digits(_)
Digits(n) == IF n < 10 THEN 1 ELSE 1 + Digits(n \div 10)

\* the length of JSON.stringify(s) for a string s: the model's strings have
\* no character that JSON escapes
QuotedLength(s) == Length(s) + 2

\* the length of JSON.stringify(data) for a Metadata:
\* {"title":..,"description":..,"image":..,"favicon":..,"domain":..,"isChannel":..}
DataLength(d) ==
  9 + QuotedLength(d.title) + 15 + QuotedLength(d.description)
    + 9 + QuotedLength(d.image) + 11 + QuotedLength(d.favicon)
    + 10 + QuotedLength(d.domain) + 13 + (IF d.isChannel THEN 4 ELSE 5) + 1

\* the length of JSON.stringify(entry): {"data":..,"ts":..,"hits":..}
EntryLength(e) == 8 + DataLength(e.data) + 6 + Digits(e.ts) + 8 + Digits(e.hits) + 1

\* the length of JSON.stringify(keys) for an array of strings: ["..",".."]
RECURSIVE ArrayLength(_)
ArrayLength(keys) ==
  IF keys = <<>> THEN 2
  ELSE IF Len(keys) = 1 THEN 2 + QuotedLength(keys[1])
  ELSE QuotedLength(Head(keys)) + 1 + ArrayLength(Tail(keys))

\* (localStorage.getItem(key) || '').length for a key with the cache's
\* prefix: the index holds an array of keys, every other key an entry
ItemLength(st, key) ==
  IF key = CACHE_META_KEY THEN ArrayLength(JSONparse(getItem(st, key)))
  ELSE EntryLength(JSONparse(getItem(st, key)))

\* the loop of checkSize over the keys of localStorage
RECURSIVE checkSizeTotal(_, _)
checkSizeTotal(st, keys) ==
  IF keys = {} THEN 0
  ELSE LET key == CHOOSE k \in keys : TRUE
       IN (IF startsWithPrefixOf[key]
             THEN ItemLength(st, key) * 2 ELSE 0)
          + checkSizeTotal(st, keys \ {key})

\* LRUCache.checkSize() comparing the number of characters, not twice that
\* number, with the byte budget
LRUCache_checkSizeChars(c, now, failMeta) ==
  IF checkSizeTotal(c.store, DOMAIN c.store) \div 2 > CACHE_MAX_BYTES
    THEN evict(c, now, failMeta)
    ELSE c

\* LRUCache.checkSize()
LRUCache_checkSize(c, now, failMeta) ==
  IF checkSizeTotal(c.store, DOMAIN c.store) > CACHE_MAX_BYTES
    THEN evict(c, now, failMeta)
    ELSE c

\* the history of set with the latest set of url replaced by e
Recorded(sets, url, e) ==
  [u \in DOMAIN sets \cup {url} |-> IF u = url THEN e ELSE sets[u]]

\* LRUCache.set writing to localStorage before it touches _mem, so that a
\* refused write leaves _mem as it was
LRUCache_setPersistFirst(c, url, data, now, failItem, failMeta) ==
  LET key == makeKeyOf[url]
      entry == [data |-> data, ts |-> now, hits |-> 1]
      mem1 == IF Len(c.mem) >= CACHE_MAX THEN Tail(c.mem) ELSE c.mem
      c0 == [c EXCEPT !.sets = Recorded(c.sets, url, [ts |-> now, data |-> data])]
      c1 == [c0 EXCEPT !.mem = MapSet(mem1, url, entry)]
      meta1 == Append(SelectSeq(c1.meta, LAMBDA k : k # key), key)
      c2 == [c1 EXCEPT !.store = setItem(c1.store, key, JSONstringify(entry)),
                       !.meta = meta1]
      c3 == IF Len(meta1) > CACHE_MAX
              THEN [c2 EXCEPT !.meta = Tail(meta1),
                              !.store = removeItem(c2.store, Head(meta1))]
              ELSE c2
  IN IF failItem THEN evict(c0, now, failMeta) ELSE saveMeta(c3, failMeta)

\* LRUCache.set shifting the oldest key out of _meta without removing its
\* entry from localStorage
LRUCache_setNoShift(c, url, data, now, failItem, failMeta) ==
  LET key == makeKeyOf[url]
      entry == [data |-> data, ts |-> now, hits |-> 1]
      mem1 == IF Len(c.mem) >= CACHE_MAX THEN Tail(c.mem) ELSE c.mem
      c1 == [c EXCEPT !.mem = MapSet(mem1, url, entry),
                      !.sets = Recorded(c.sets, url, [ts |-> now, data |-> data])]
      meta1 == Append(SelectSeq(c1.meta, LAMBDA k : k # key), key)
      c2 == [c1 EXCEPT !.store = setItem(c1.store, key, JSONstringify(entry)),
                       !.meta = meta1]
      c3 == IF Len(meta1) > CACHE_MAX
              THEN [c2 EXCEPT !.meta = Tail(meta1)]
              ELSE c2
  IN IF failItem THEN evict(c1, now, failMeta) ELSE saveMeta(c3, failMeta)

\* LRUCache.set(url, data); failItem / failMeta: localStorage.setItem throws
\* (quota) for the entry / for the index
LRUCache_set(c, url, data, now, failItem, failMeta) ==
  LET key == makeKeyOf[url]
      entry == [data |-> data, ts |-> now, hits |-> 1]
      mem1 == IF Len(c.mem) >= CACHE_MAX THEN Tail(c.mem) ELSE c.mem
      c1 == [c EXCEPT !.mem = MapSet(mem1, url, entry),
                      !.sets = Recorded(c.sets, url, [ts |-> now, data |-> data])]
      meta1 == Append(SelectSeq(c1.meta, LAMBDA k : k # key), key)
      c2 == [c1 EXCEPT !.store = setItem(c1.store, key, JSONstringify(entry)),
                       !.meta = meta1]
      c3 == IF Len(meta1) > CACHE_MAX
              THEN [c2 EXCEPT !.meta = Tail(meta1),
                              !.store = removeItem(c2.store, Head(meta1))]
              ELSE c2
  IN IF failItem THEN evict(c1, now, failMeta) ELSE saveMeta(c3, failMeta)

\* LRUCache.init() in a freshly loaded page: _mem is empty, _meta is read
\* back from localStorage
LRUCache_init(c) ==
  [c EXCEPT !.mem = <<>>,
            !.meta = IF getItemPresent(c.store, CACHE_META_KEY)
                       THEN JSONparse(getItem(c.store, CACHE_META_KEY))
                       ELSE <<>>]

\* what get returns for null
Null == [null |-> TRUE]

\* LRUCache.get removing a persisted entry older than the TTL without
\* counting the miss
LRUCache_getExpiredUncounted(c, m, url, now) ==
  LET inMem == MapHas(c.mem, url)
      memEntry == MapGet(c.mem, url)
      key == makeKeyOf[url]
  IN IF inMem /\ now - memEntry.ts < CACHE_TTL
       THEN [cache |-> [c EXCEPT !.mem = Append(MapDelete(c.mem, url),
                                   [url |-> url, entry |-> [memEntry EXCEPT !.hits = @ + 1]])],
             metrics |-> [m EXCEPT !.cacheHits = @ + 1],
             result |-> memEntry.data]
       ELSE LET c1 == [c EXCEPT !.mem = MapDelete(c.mem, url)]
            IN IF ~getItemPresent(c1.store, key)
                 THEN [cache |-> c1, metrics |-> [m EXCEPT !.cacheMisses = @ + 1],
                       result |-> Null]
                 ELSE LET entry == JSONparse(getItem(c1.store, key))
                      IN IF now - entry.ts > CACHE_TTL
                           THEN [cache |-> [c1 EXCEPT !.store = removeItem(c1.store, key)],
                                 metrics |-> m,
                                 result |-> Null]
                           ELSE [cache |-> [c1 EXCEPT !.mem = MapSet(c1.mem, url, entry)],
                                 metrics |-> [m EXCEPT !.cacheHits = @ + 1],
                                 result |-> entry.data]

\* LRUCache.get leaving an entry it finds in _mem at its place
LRUCache_getNoRefresh(c, m, url, now) ==
  LET inMem == MapHas(c.mem, url)
      memEntry == MapGet(c.mem, url)
      key == makeKeyOf[url]
  IN IF inMem /\ now - memEntry.ts < CACHE_TTL
       THEN [cache |-> [c EXCEPT !.mem = MapSet(c.mem, url, [memEntry EXCEPT !.hits = @ + 1])],
             metrics |-> [m EXCEPT !.cacheHits = @ + 1],
             result |-> memEntry.data]
       ELSE LET c1 == [c EXCEPT !.mem = MapDelete(c.mem, url)]
            IN IF ~getItemPresent(c1.store, key)
                 THEN [cache |-> c1, metrics |-> [m EXCEPT !.cacheMisses = @ + 1],
                       result |-> Null]
                 ELSE LET entry == JSONparse(getItem(c1.store, key))
                      IN IF now - entry.ts > CACHE_TTL
                           THEN [cache |-> [c1 EXCEPT !.store = removeItem(c1.store, key)],
                                 metrics |-> [m EXCEPT !.cacheMisses = @ + 1],
                                 result |-> Null]
                           ELSE [cache |-> [c1 EXCEPT !.mem = MapSet(c1.mem, url, entry)],
                                 metrics |-> [m EXCEPT !.cacheHits = @ + 1],
                                 result |-> entry.data]

\* LRUCache.get restarting an entry's TTL whenever the entry is served
LRUCache_getTouch(c, m, url, now) ==
  LET inMem == MapHas(c.mem, url)
      memEntry == MapGet(c.mem, url)
      key == makeKeyOf[url]
  IN IF inMem /\ now - memEntry.ts < CACHE_TTL
       THEN [cache |-> [c EXCEPT !.mem = Append(MapDelete(c.mem, url),
                                                [url |-> url,
                                                 entry |-> [memEntry EXCEPT !.hits = @ + 1,
                                                                     !.ts = now]])],
             metrics |-> [m EXCEPT !.cacheHits = @ + 1],
             result |-> memEntry.data]
       ELSE LET c1 == [c EXCEPT !.mem = MapDelete(c.mem, url)]
            IN IF ~getItemPresent(c1.store, key)
                 THEN [cache |-> c1, metrics |-> [m EXCEPT !.cacheMisses = @ + 1],
                       result |-> Null]
                 ELSE LET entry == JSONparse(getItem(c1.store, key))
                      IN IF now - entry.ts > CACHE_TTL
                           THEN [cache |-> [c1 EXCEPT !.store = removeItem(c1.store, key)],
                                 metrics |-> [m EXCEPT !.cacheMisses = @ + 1],
                                 result |-> Null]
                           ELSE [cache |-> [c1 EXCEPT !.mem = MapSet(c1.mem, url, [entry EXCEPT !.ts = now])],
                                 metrics |-> [m EXCEPT !.cacheHits = @ + 1],
                                 result |-> entry.data]

\* LRUCache.get(url) at time now, with the counters m of metrics: the cache
\* and the counters after the call, and the value returned.  The strings
\* under the cache's keys are written by set alone, so JSON.parse does not
\* throw.
LRUCache_get(c, m, url, now) ==
  LET inMem == MapHas(c.mem, url)
      memEntry == MapGet(c.mem, url)
      key == makeKeyOf[url]
  IN IF inMem /\ now - memEntry.ts < CACHE_TTL
       THEN [cache |-> [c EXCEPT !.mem = Append(MapDelete(c.mem, url),
                                                [url |-> url,
                                                 entry |-> [memEntry EXCEPT !.hits = @ + 1]])],
             metrics |-> [m EXCEPT !.cacheHits = @ + 1],
             result |-> memEntry.data]
       ELSE LET c1 == [c EXCEPT !.mem = MapDelete(c.mem, url)]
            IN IF ~getItemPresent(c1.store, key)
                 THEN [cache |-> c1, metrics |-> [m EXCEPT !.cacheMisses = @ + 1],
                       result |-> Null]
                 ELSE LET entry == JSONparse(getItem(c1.store, key))
                      IN IF now - entry.ts > CACHE_TTL
                           THEN [cache |-> [c1 EXCEPT !.store = removeItem(c1.store, key)],
                                 metrics |-> [m EXCEPT !.cacheMisses = @ + 1],
                                 result |-> Null]
                           ELSE [cache |-> [c1 EXCEPT !.mem = MapSet(c1.mem, url, entry)],
                                 metrics |-> [m EXCEPT !.cacheHits = @ + 1],
                                 result |-> entry.data]

\* ------------------------------------------------------------------------
\* The remote endpoint's answers (the parsed body of the response)
\* ------------------------------------------------------------------------
\* isNull: the body is the JSON text null; hasData: json.data is present;
\* image / logo: json.data.image.url / json.data.logo.url, "" when absent
J_SUCCESS ==
  [isNull |-> FALSE, status |-> "success", hasData |-> TRUE, title |-> "T",
   description |-> "D", image |-> "https://cdn.example/og.png", logo |-> ""]
J_NODATA == [J_SUCCESS EXCEPT !.hasData = FALSE, !.title = "", !.description = "", !.image = ""]
J_FAIL == [J_NODATA EXCEPT !.status = "fail"]
J_NULL == [J_NODATA EXCEPT !.isNull = TRUE, !.status = ""]
Responses == {J_SUCCESS, J_NODATA, J_FAIL, J_NULL}
\* a success answer for a page without an image
J_NOIMAGE == [J_SUCCESS EXCEPT !.image = ""]
\* the answers that tell the sources of Metadata.image apart
ThumbResponses == {J_SUCCESS, J_NOIMAGE, J_FAIL}

NoTask == [task |-> 0, url |-> "", attempts |-> 0, rfails |-> 0, value |-> Null]

\* ------------------------------------------------------------------------
\* RequestQueue (src/link-preview.js:275-376).  A state is a record
\* s = [queue, active, inFlight, tasks, metrics, cache, settled]: tasks holds
\* every task object created so far (a task is named by its index), queue
\* the indices of _queue, inFlight[url] the task whose promise _inFlight
\* maps url to (0: no entry), settled the task the running handler has
\* settled (NoTask: none).
\* ------------------------------------------------------------------------
\* the task object of enqueue with the promise its resolve belongs to
\*   phase    queued | fetch (await fetch) | body (await res.json) | settled
\*   timer    the timeout of the current attempt is armed
\*   attempts network calls issued for the task
\*   rfails   attempts that ended in the catch block's retry test with an
\*            error other than AbortError
\*   promise  pending | fulfilled | rejected, value: what it settled with
\*   resolves calls of task.resolve
\*   alone    no other task for the url was unsettled when enqueue created
\*            this one (history, read by the properties only)
NewTask(url) ==
  [url |-> url, retries |-> 0, phase |-> "queued", timer |-> FALSE,
   attempts |-> 0, rfails |-> 0, promise |-> "pending", value |-> Null,
   resolves |-> 0, alone |-> TRUE]

\* no task for url is queued or under way
NoneLive(s, url) ==
  \A i \in 1..Len(s.tasks) : s.tasks[i].url = url => s.tasks[i].phase = "settled"

\* task.resolve(v): settles the promise the first time it is called.  The
\* task object is referenced nowhere afterwards: s.settled keeps what it was
\* when it settled, tasks[t] keeps the promise alone.
resolve(s, t, v) ==
  [s EXCEPT !.tasks[t] = [NewTask(s.tasks[t].url) EXCEPT
                            !.phase = "settled",
                            !.promise = "fulfilled",
                            !.value = IF s.tasks[t].promise = "pending" THEN v
                                      ELSE s.tasks[t].value,
                            !.resolves = s.tasks[t].resolves + 1],
            !.settled = [task |-> t, url |-> s.tasks[t].url,
                         attempts |-> s.tasks[t].attempts,
                         rfails |-> s.tasks[t].rfails, value |-> v]]

\* _execute(task) up to its first await: the timeout is armed and the
\* network call issued
executeStart(s, t) ==
  [s EXCEPT !.metrics.totalRequests = @ + 1,
            !.tasks[t].phase = "fetch",
            !.tasks[t].timer = TRUE,
            !.tasks[t].attempts = @ + 1]

\* _drain() with the ceiling test off by one (<= for <)
RECURSIVE drainOffByOne(_)
drainOffByOne(s) ==
  IF s.active <= MAX_CONCURRENT /\ Len(s.queue) > 0
    THEN drainOffByOne(executeStart([s EXCEPT !.queue = Tail(s.queue), !.active = @ + 1],
                                    Head(s.queue)))
    ELSE s

\* _drain() taking the newest task (pop for shift)
RECURSIVE drainFromBack(_)
drainFromBack(s) ==
  IF s.active < MAX_CONCURRENT /\ Len(s.queue) > 0
    THEN drainFromBack(executeStart([s EXCEPT !.queue = SubSeq(s.queue, 1, Len(s.queue) - 1),
                                              !.active = @ + 1],
                                    s.queue[Len(s.queue)]))
    ELSE s

\* _drain()
RECURSIVE drain(_)
drain(s) ==
  IF s.active < MAX_CONCURRENT /\ Len(s.queue) > 0
    THEN drain(executeStart([s EXCEPT !.queue = Tail(s.queue), !.active = @ + 1],
                            Head(s.queue)))
    ELSE s

\* enqueue(url) without the _inFlight test
enqueueNoDedup(s, url) ==
  LET t == Len(s.tasks) + 1
      s1 == [s EXCEPT !.tasks = Append(s.tasks, [NewTask(url) EXCEPT !.alone = NoneLive(s, url)]),
                      !.queue = Append(s.queue, t),
                      !.inFlight[url] = t]
  IN [state |-> drain(s1), promise |-> t]

\* enqueue(url): the new state and the promise returned (named by its task)
enqueue(s, url) ==
  IF s.inFlight[url] # 0
    THEN [state |-> s, promise |-> s.inFlight[url]]
    ELSE LET t == Len(s.tasks) + 1
             s1 == [s EXCEPT !.tasks = Append(s.tasks, [NewTask(url) EXCEPT !.alone = NoneLive(s, url)]),
                             !.queue = Append(s.queue, t),
                             !.inFlight[url] = t]
         IN [state |-> drain(s1), promise |-> t]

\* the finally block of _execute without its call of _drain
executeFinallyNoDrain(s, t) ==
  [s EXCEPT !.active = @ - 1, !.inFlight[s.tasks[t].url] = 0]

\* the finally block of _execute
executeFinally(s, t) ==
  drain([s EXCEPT !.active = @ - 1, !.inFlight[s.tasks[t].url] = 0])

\* the catch block with the retry test off by one (<= for <)
executeCatchOneMore(s, t, errName) ==
  LET s1 == [s EXCEPT !.tasks[t].timer = FALSE]
  IN IF s1.tasks[t].retries <= MAX_RETRY /\ errName # "AbortError"
       THEN [s1 EXCEPT !.tasks[t].retries = @ + 1,
                       !.tasks[t].rfails = @ + 1,
                       !.tasks[t].phase = "queued",
                       !.queue = <<t>> \o s1.queue]
       ELSE resolve([s1 EXCEPT !.metrics.errors = @ + 1,
                               !.tasks[t].rfails =
                                   IF errName # "AbortError" THEN @ + 1 ELSE @],
                    t, Null)

\* the catch block rejecting the promise with the error when it gives up
executeCatchReject(s, t, errName) ==
  LET s1 == [s EXCEPT !.tasks[t].timer = FALSE]
  IN IF s1.tasks[t].retries < MAX_RETRY /\ errName # "AbortError"
       THEN [s1 EXCEPT !.tasks[t].retries = @ + 1,
                       !.tasks[t].rfails = @ + 1,
                       !.tasks[t].phase = "queued",
                       !.queue = <<t>> \o s1.queue]
       ELSE [s1 EXCEPT !.metrics.errors = @ + 1,
                       !.tasks[t] = [NewTask(s1.tasks[t].url) EXCEPT
                                       !.phase = "settled", !.promise = "rejected"],
                       !.settled = [task |-> t, url |-> s1.tasks[t].url,
                                    attempts |-> s1.tasks[t].attempts,
                                    rfails |-> s1.tasks[t].rfails, value |-> Null]]

\* the catch block re-queueing at the back (push for unshift)
executeCatchToBack(s, t, errName) ==
  LET s1 == [s EXCEPT !.tasks[t].timer = FALSE]
  IN IF s1.tasks[t].retries < MAX_RETRY /\ errName # "AbortError"
       THEN [s1 EXCEPT !.tasks[t].retries = @ + 1,
                       !.tasks[t].rfails = @ + 1,
                       !.tasks[t].phase = "queued",
                       !.queue = Append(s1.queue, t)]
       ELSE resolve([s1 EXCEPT !.metrics.errors = @ + 1,
                               !.tasks[t].rfails =
                                   IF errName # "AbortError" THEN @ + 1 ELSE @],
                    t, Null)

\* the catch block of _execute, err.name = errName
executeCatch(s, t, errName) ==
  LET s1 == [s EXCEPT !.tasks[t].timer = FALSE]
  IN IF s1.tasks[t].retries < MAX_RETRY /\ errName # "AbortError"
       THEN [s1 EXCEPT !.tasks[t].retries = @ + 1,
                       !.tasks[t].rfails = @ + 1,
                       !.tasks[t].phase = "queued",
                       !.queue = <<t>> \o s1.queue]
       ELSE resolve([s1 EXCEPT !.metrics.errors = @ + 1,
                               !.tasks[t].rfails =
                                   IF errName # "AbortError" THEN @ + 1 ELSE @],
                    t, Null)

\* fetch rejected with err.name = errName: catch, then finally
fetchRejected(s, t, errName) == executeFinally(executeCatch(s, t, errName), t)

\* fetch resolved with the response: the timeout is cleared, res.json() awaited
fetchResolved(s, t) ==
  [s EXCEPT !.tasks[t].timer = FALSE, !.tasks[t].phase = "body"]

\* `https://www.google.com/s2/favicons?domain=${new URL(url).hostname}&sz=32`
defaultFavicon(url) ==
  Str(Chars("https://www.google.com/s2/favicons?domain=")
      \o Chars(ParseURL(url).hostname) \o Chars("&sz=32"))

defaultFaviconOf ==
  [url \in CacheURLs |-> IF ParseURL(url).ok THEN defaultFavicon(url) ELSE ""]

\* the Metadata with the endpoint's image taking precedence over the
\* thumbnail extracted from the URL
MetadataOfApiFirst(url, json) ==
  LET directThumb == extractOf[url]
      isChannel == isChannelPageOf[url]
      apiImage == json.image
      hostname == ParseURL(url).hostname
  IN [title |-> json.title,
      description |-> json.description,
      image |-> IF isChannel THEN ""
                ELSE IF apiImage # "" THEN apiImage ELSE directThumb,
      favicon |-> IF json.logo # "" THEN json.logo
                  ELSE defaultFaviconOf[url],
      domain |-> hostname,
      isChannel |-> isChannel]

\* the Metadata without the suppression of a channel page's image
MetadataOfChannelImage(url, json) ==
  LET directThumb == extractOf[url]
      isChannel == isChannelPageOf[url]
      apiImage == json.image
      hostname == ParseURL(url).hostname
  IN [title |-> json.title,
      description |-> json.description,
      image |-> IF directThumb # "" THEN directThumb ELSE apiImage,
      favicon |-> IF json.logo # "" THEN json.logo
                  ELSE defaultFaviconOf[url],
      domain |-> hostname,
      isChannel |-> isChannel]

\* the Metadata built from a success answer
MetadataOf(url, json) ==
  LET directThumb == extractOf[url]
      isChannel == isChannelPageOf[url]
      apiImage == json.image
      hostname == ParseURL(url).hostname
  IN [title |-> json.title,
      description |-> json.description,
      image |-> IF directThumb # "" THEN directThumb
                ELSE IF isChannel THEN "" ELSE apiImage,
      favicon |-> IF json.logo # "" THEN json.logo
                  ELSE defaultFaviconOf[url],
      domain |-> hostname,
      isChannel |-> isChannel]

\* the try block resolving with the endpoint's data instead of the Metadata
bodyTryRawData(s, t, json, now, failItem, failMeta) ==
  LET url == s.tasks[t].url
  IN IF json.isNull THEN executeCatch(s, t, "TypeError")
     ELSE IF json.status = "success" /\ json.hasData
       THEN IF ~ParseURL(url).ok THEN executeCatch(s, t, "TypeError")
            ELSE resolve([s EXCEPT !.cache = LRUCache_set(s.cache, url, MetadataOf(url, json),
                                                          now, failItem, failMeta)],
                         t, json)
       ELSE resolve(s, t, Null)

\* the try block resolving the promise without writing the Metadata to the
\* cache
bodyTryNoCache(s, t, json, now, failItem, failMeta) ==
  LET url == s.tasks[t].url
  IN IF json.isNull THEN executeCatch(s, t, "TypeError")
     ELSE IF json.status = "success" /\ json.hasData
       THEN IF ~ParseURL(url).ok THEN executeCatch(s, t, "TypeError")
            ELSE resolve(s, t, MetadataOf(url, json))
       ELSE resolve(s, t, Null)

\* the try block caching the failure under the url before it resolves the
\* promise with null
bodyTryCacheFailure(s, t, json, now, failItem, failMeta) ==
  LET url == s.tasks[t].url
  IN IF json.isNull THEN executeCatch(s, t, "TypeError")
     ELSE IF json.status = "success" /\ json.hasData
       THEN IF ~ParseURL(url).ok THEN executeCatch(s, t, "TypeError")
            ELSE LET data == MetadataOf(url, json)
                 IN resolve([s EXCEPT !.cache = LRUCache_set(s.cache, url, data, now,
                                                             failItem, failMeta)],
                            t, data)
       ELSE resolve([s EXCEPT !.cache = LRUCache_set(s.cache, url, Null, now,
                                                     failItem, failMeta)],
                    t, Null)

\* the try block after res.json() resolved with json, without the finally:
\* reading json.status of null and new URL(task.url) of an unparsable URL
\* throw TypeError
bodyTry(s, t, json, now, failItem, failMeta) ==
  LET url == s.tasks[t].url
      s1 == s
  IN IF json.isNull THEN executeCatch(s1, t, "TypeError")
     ELSE IF json.status = "success" /\ json.hasData
       THEN IF ~ParseURL(url).ok THEN executeCatch(s1, t, "TypeError")
            ELSE LET data == MetadataOf(url, json)
                 IN resolve([s1 EXCEPT !.cache = LRUCache_set(s1.cache, url, data, now,
                                                              failItem, failMeta)],
                            t, data)
       ELSE resolve(s1, t, Null)

\* res.json() resolved with json: try, then finally
bodyResolved(s, t, json, now, failItem, failMeta) ==
  executeFinally(bodyTry(s, t, json, now, failItem, failMeta), t)

\* res.json() rejected (the body is no JSON, or the connection broke)
bodyRejected(s, t) == executeFinally(executeCatch(s, t, "SyntaxError"), t)

\* ------------------------------------------------------------------------
\* The state of the module (singletons of src/link-preview.js)
\* ------------------------------------------------------------------------
\* ------------------------------------------------------------------------
\* Preloader (src/link-preview.js:381-424).  Its state is a record
\* p = [preloaded, preloadCount, observed, timers, scheduled, skipped,
\* renders]: _preloaded, _preloadCount, the cards _observer observes, the
\* urls of the pending 500 ms timeouts in the order they were set (equal
\* delays fire in that order), and three histories: the urls scheduled since
\* the last reset, the url the callback last found in _preloaded since then,
\* and how many times the list has been rendered.
\* ------------------------------------------------------------------------
\* the cards of the rendered list, by the href of their '.link-url a'
\* anchor: two cards share a url and one has no anchor
CARD_URLS == <<U_PAGE, U_PAGE_B, U_PAGE_C, U_PAGE_D, U_VIDEO, U_SHORT, U_PAGE, "">>
Cards == 1..Len(CARD_URLS)

NoPreload ==
  [preloaded |-> {}, preloadCount |-> 0, observed |-> {}, timers |-> <<>>,
   scheduled |-> <<>>, skipped |-> "", renders |-> 0]

\* what a call of LRUCache.get leaves in w = [s, p, got]: the page's state
\* s, the Preloader p and the record of the latest get
Looked(w, url, g) ==
  [w EXCEPT !.s.cache = g.cache, !.s.metrics = g.metrics,
            !.got = [url |-> url, result |-> g.result,
                     after |-> Cardinality(DOMAIN g.cache.sets)]]

\* the observer's callback letting one more url through than the budget
observerEntryOneMore(w, entry, now) ==
  LET url == CARD_URLS[entry.target]
      g == LRUCache_get(w.s.cache, w.s.metrics, url, now)
      w1 == Looked(w, url, g)
  IN IF ~entry.isIntersecting THEN w
     ELSE IF url = "" THEN w
     ELSE IF url \in w.p.preloaded THEN [w EXCEPT !.p.skipped = url]
     ELSE IF g.result # Null THEN w1
     ELSE IF w.p.preloadCount > PRELOAD_VIEWPORT THEN w1
     ELSE [w1 EXCEPT !.p.preloaded = @ \cup {url},
                     !.p.preloadCount = @ + 1,
                     !.p.timers = Append(@, url),
                     !.p.scheduled = Append(@, url)]

\* the observer's callback without the test of _preloaded
observerEntryNoSet(w, entry, now) ==
  LET url == CARD_URLS[entry.target]
      g == LRUCache_get(w.s.cache, w.s.metrics, url, now)
      w1 == Looked(w, url, g)
  IN IF ~entry.isIntersecting THEN w
     ELSE IF url = "" THEN w
     ELSE IF g.result # Null THEN w1
     ELSE IF w.p.preloadCount >= PRELOAD_VIEWPORT THEN w1
     ELSE [w1 EXCEPT !.p.skipped = IF url \in w.p.preloaded THEN url ELSE @,
                     !.p.preloaded = @ \cup {url},
                     !.p.preloadCount = @ + 1,
                     !.p.timers = Append(@, url),
                     !.p.scheduled = Append(@, url)]

\* the body of entries.forEach in the observer's callback, for one entry
\* [target, isIntersecting]
observerEntry(w, entry, now) ==
  LET url == CARD_URLS[entry.target]
      g == LRUCache_get(w.s.cache, w.s.metrics, url, now)
      w1 == Looked(w, url, g)
  IN IF ~entry.isIntersecting THEN w
     ELSE IF url = "" THEN w
     ELSE IF url \in w.p.preloaded THEN [w EXCEPT !.p.skipped = url]
     ELSE IF g.result # Null THEN w1
     ELSE IF w.p.preloadCount >= PRELOAD_VIEWPORT THEN w1
     ELSE [w1 EXCEPT !.p.preloaded = @ \cup {url},
                     !.p.preloadCount = @ + 1,
                     !.p.timers = Append(@, url),
                     !.p.scheduled = Append(@, url)]

\* the observer's callback: entries.forEach
RECURSIVE observerCallback(_, _, _)
observerCallback(w, entries, now) ==
  IF entries = <<>> THEN w
  ELSE observerCallback(observerEntry(w, Head(entries), now), Tail(entries), now)

\* the timeout's callback calling enqueue whatever the cache holds
timerCallbackNoCheck(w, url, now) ==
  LET g == LRUCache_get(w.s.cache, w.s.metrics, url, now)
      w1 == Looked(w, url, g)
      r == enqueue(w1.s, url)
  IN [w |-> [w1 EXCEPT !.s = r.state], called |-> TRUE, promise |-> r.promise]

\* the callback of the 500 ms timeout set for url; called: whether it
\* called RequestQueue.enqueue, promise: what enqueue returned
timerCallback(w, url, now) ==
  LET g == LRUCache_get(w.s.cache, w.s.metrics, url, now)
      w1 == Looked(w, url, g)
      r == enqueue(w1.s, url)
  IN IF g.result = Null
       THEN [w |-> [w1 EXCEPT !.s = r.state], called |-> TRUE, promise |-> r.promise]
       ELSE [w |-> w1, called |-> FALSE, promise |-> 0]

\* Preloader.reset() leaving _preloaded as it is
Preloader_resetKeepsSet(p) ==
  [p EXCEPT !.preloadCount = 0, !.observed = {}, !.scheduled = <<>>, !.skipped = ""]

\* Preloader.reset(): disconnect() ends every observation
Preloader_reset(p) ==
  [p EXCEPT !.preloadCount = 0, !.preloaded = {}, !.observed = {},
            !.scheduled = <<>>, !.skipped = ""]

\* Preloader.observe(cardEl)
Preloader_observe(p, card) == [p EXCEPT !.observed = @ \cup {card}]

\* LinkPreview.rebindPreloader() with the cards of the document
RECURSIVE observeAll(_, _)
observeAll(p, cards) ==
  IF cards = {} THEN p
  ELSE LET card == CHOOSE c \in cards : TRUE
       IN observeAll(Preloader_observe(p, card), cards \ {card})
rebindPreloader(p, cards) == observeAll(Preloader_reset(p), cards)

\* ------------------------------------------------------------------------
\* PreviewUI.show (src/link-preview.js:496-574) on w = [s, ui, got].  Of the
\* preview card the model keeps whether it is visible, its url, its state
\* (hidden, loading, content) and the data it displays.  The reactions to
\* the promise of enqueue and the 5 s fallback timeout, which only change
\* what the card displays later, are left out, as are position and
\* animation.
\* ------------------------------------------------------------------------
\* the placeholder shown for a video url without a cache entry
Placeholder(url, title) ==
  [title |-> title, description |-> "", image |-> extractOf[url],
   favicon |-> defaultFaviconOf[url], domain |-> ParseURL(url).hostname]

\* show(cardEl, url, title) asking the queue whether or not the cache has
\* an entry
PreviewUI_showAlwaysFetch(w, url, title, now, failItem) ==
  LET directThumb == extractOf[url]
      g == LRUCache_get(w.s.cache, w.s.metrics, url, now)
      w1 == [Looked(w, url, g) EXCEPT !.ui.isVisible = TRUE, !.ui.currentUrl = url,
                                      !.ui.state = "loading", !.ui.data = Null]
      cached == g.result
      corrected == [cached EXCEPT !.image = directThumb]
      r == enqueue(w1.s, url)
  IN [w |-> [w1 EXCEPT !.s = r.state,
                       !.ui.state = IF cached # Null \/ directThumb # ""
                                      THEN "content" ELSE "loading",
                       !.ui.data = IF cached # Null
                                     THEN (IF directThumb # "" THEN corrected ELSE cached)
                                     ELSE IF directThumb # "" THEN Placeholder(url, title)
                                     ELSE Null],
      called |-> TRUE, promise |-> r.promise]

\* show(cardEl, url, title); failItem: localStorage refuses the write of
\* LRUCache.set.  called: whether RequestQueue.enqueue was called, promise:
\* what it returned
PreviewUI_show(w, url, title, now, failItem) ==
  LET directThumb == extractOf[url]
      g == LRUCache_get(w.s.cache, w.s.metrics, url, now)
      w1 == [Looked(w, url, g) EXCEPT !.ui.isVisible = TRUE, !.ui.currentUrl = url,
                                      !.ui.state = "loading", !.ui.data = Null]
      cached == g.result
      corrected == [cached EXCEPT !.image = directThumb]
      r == enqueue(w1.s, url)
  IN IF directThumb # ""
       THEN IF cached # Null
              THEN [w |-> [w1 EXCEPT !.ui.state = "content", !.ui.data = corrected,
                                     !.s.cache = IF cached.image # directThumb
                                                   THEN LRUCache_set(@, url, corrected, now,
                                                                     failItem, FALSE)
                                                   ELSE @],
                    called |-> FALSE, promise |-> 0]
              ELSE [w |-> [w1 EXCEPT !.ui.state = "content",
                                     !.ui.data = Placeholder(url, title),
                                     !.s = r.state],
                    called |-> TRUE, promise |-> r.promise]
       ELSE IF cached # Null
              THEN [w |-> [w1 EXCEPT !.ui.state = "content", !.ui.data = cached],
                    called |-> FALSE, promise |-> 0]
              ELSE [w |-> [w1 EXCEPT !.s = r.state], called |-> TRUE, promise |-> r.promise]

VARIABLES
  queue,     \* RequestQueue._queue, as task indices
  active,    \* RequestQueue._active
  inFlight,  \* RequestQueue._inFlight
  tasks,     \* the task objects created by enqueue, with their promises
  metrics,   \* the counters of metrics; the latency accounting (totalLoadTime,
             \* requestCount: measured durations and their number, read by the
             \* debug panel alone) is left out
  mem,       \* LRUCache._mem
  store,     \* localStorage
  meta,      \* LRUCache._meta
  now,       \* Date.now()
  sets,      \* for every url LRUCache.set was called with, the time and the
             \* data of the latest call
  got,       \* the latest call of LRUCache.get: its url, the value returned
             \* and how many urls had been set by then (NoGet: none)
  preloader, \* the Preloader
  ui,        \* the page: the cards of the rendered list and the preview
             \* card's visibility, url, state and data
  settled,   \* the task the last handler settled, as it was then (NoTask: none)
  returned   \* the calls of enqueue made since the last other handler ran: the
             \* url of the latest, the promise it returned and n, how many calls
             \* in a row have returned that promise (NoCall: none)

vars ==
  <<queue, active, inFlight, tasks, metrics, mem, store, meta, now, sets, got,
    preloader, ui, settled, returned>>

\* the URLs callers ask for in Spec
URLS == {U_PAGE, U_BAD}
\* the URLs callers ask for in SpecBurst
BurstURLS == {U_PAGE, U_PAGE_B, U_PAGE_C, U_PAGE_D}

NoCall == [url |-> "", promise |-> 0, n |-> 0]

\* a key of another module of the page in the same localStorage
\* (src/link-preview.js:797)
STORAGE_KEY == "superbrain_saved_queries"

Cache == [mem |-> mem, store |-> store, meta |-> meta, sets |-> sets]

NoGet == [url |-> "", result |-> Null, after |-> 0]

\* the page before the list is rendered and before any preview is shown
NoUI == [cards |-> {}, isVisible |-> FALSE, currentUrl |-> "", state |-> "hidden",
         data |-> Null]

Cur ==
  [queue |-> queue, active |-> active, inFlight |-> inFlight, tasks |-> tasks,
   metrics |-> metrics, cache |-> Cache, settled |-> NoTask]

Becomes(s) ==
  /\ queue' = s.queue
  /\ active' = s.active
  /\ inFlight' = s.inFlight
  /\ tasks' = s.tasks
  /\ metrics' = s.metrics
  /\ mem' = s.cache.mem
  /\ store' = s.cache.store
  /\ meta' = s.cache.meta
  /\ sets' = s.cache.sets
  /\ settled' = s.settled
  /\ UNCHANGED <<got, preloader, ui>>

Init ==
  /\ queue = <<>>
  /\ active = 0
  /\ inFlight = [u \in ModelURLs |-> 0]
  /\ tasks = <<>>
  /\ metrics = [totalRequests |-> 0, errors |-> 0,
                cacheHits |-> 0, cacheMisses |-> 0]
  /\ mem = <<>>
  /\ store = [k \in {STORAGE_KEY} |-> JSONstringify(<<>>)]
  /\ meta = <<>>
  /\ now = 0
  /\ sets = [u \in {} |-> 0]
  /\ got = NoGet
  /\ preloader = NoPreload
  /\ ui = NoUI
  /\ settled = NoTask
  /\ returned = NoCall

\* a caller calls RequestQueue.enqueue(url); at most maxTasks tasks are created
EnqueueCall(url, maxTasks) ==
  /\ inFlight[url] = 0 => Len(tasks) < maxTasks
  /\ inFlight[url] # 0 /\ returned.promise = inFlight[url] => returned.n < MaxCalls
  /\ LET r == enqueue(Cur, url)
     IN /\ Becomes(r.state)
        /\ returned' = [url |-> url, promise |-> r.promise,
                        n |-> IF returned.promise = r.promise THEN returned.n + 1 ELSE 1]
  /\ UNCHANGED now

Enqueue(url) == EnqueueCall(url, MaxTasks)

\* The URLs of BurstURLS differ in their last character only, and no handler
\* reads it: callers take them into use in the order a, b, c, d.
BurstRank(url) ==
  CASE url = U_PAGE -> 1 [] url = U_PAGE_B -> 2 [] url = U_PAGE_C -> 3 [] url = U_PAGE_D -> 4

EnqueueBurst(url) ==
  /\ \A v \in BurstURLS :
        BurstRank(v) < BurstRank(url) => \E t \in 1..Len(tasks) : tasks[t].url = v
  /\ EnqueueCall(url, MaxBurst)

\* the response of task t's network call arrives (status line and headers)
FetchResolves(t) ==
  /\ tasks[t].phase = "fetch"
  /\ Becomes(fetchResolved(Cur, t))
  /\ returned' = NoCall
  /\ UNCHANGED now

\* task t's network call fails (no connection, DNS, CORS)
FetchFails(t) ==
  /\ tasks[t].phase = "fetch"
  /\ Becomes(fetchRejected(Cur, t, "TypeError"))
  /\ returned' = NoCall
  /\ UNCHANGED now

\* the timeout of task t's attempt fires: controller.abort() rejects the
\* pending fetch with AbortError
Timeout(t) ==
  /\ tasks[t].phase = "fetch"
  /\ tasks[t].timer
  /\ Becomes(fetchRejected(Cur, t, "AbortError"))
  /\ returned' = NoCall
  /\ UNCHANGED now

\* the body of task t's response has arrived and parsed to json
\* (failItem, failMeta: what localStorage.setItem does in LRUCache.set, which
\* only a success answer for a parsable URL reaches)
BodyResolves(t, json, failItem, failMeta) ==
  /\ tasks[t].phase = "body"
  /\ (failItem \/ failMeta) =>
       (json.status = "success" /\ json.hasData /\ ParseURL(tasks[t].url).ok)
  /\ Becomes(bodyResolved(Cur, t, json, now, failItem, failMeta))
  /\ returned' = NoCall
  /\ UNCHANGED now

\* the body of task t's response cannot be read or parsed
BodyFails(t) ==
  /\ tasks[t].phase = "body"
  /\ Becomes(bodyRejected(Cur, t))
  /\ returned' = NoCall
  /\ UNCHANGED now

Next ==
  \/ \E url \in URLS : Enqueue(url)
  \/ \E t \in 1..Len(tasks) : FetchResolves(t)
  \/ \E t \in 1..Len(tasks) : FetchFails(t)
  \/ \E t \in 1..Len(tasks) : Timeout(t)
  \/ \E t \in 1..Len(tasks), json \in Responses, failItem \in BOOLEAN, failMeta \in BOOLEAN :
       BodyResolves(t, json, failItem, failMeta)
  \/ \E t \in 1..Len(tasks) : BodyFails(t)

Spec == Init /\ [][Next]_vars

\* A burst of requests for up to four pages, enough to make tasks wait behind
\* the concurrency ceiling; localStorage accepts every write.
NextBurst ==
  \/ \E url \in BurstURLS : EnqueueBurst(url)
  \/ \E t \in 1..Len(tasks) : FetchResolves(t)
  \/ \E t \in 1..Len(tasks) : FetchFails(t)
  \/ \E t \in 1..Len(tasks) : Timeout(t)
  \/ \E t \in 1..Len(tasks), json \in Responses : BodyResolves(t, json, FALSE, FALSE)
  \/ \E t \in 1..Len(tasks) : BodyFails(t)

SpecBurst == Init /\ [][NextBurst]_vars

\* Requests for video, channel and ordinary pages, answered with and without
\* an image.
ThumbURLS == {U_VIDEO, U_SHORT, U_CHANNEL, U_PAGE}

NextThumb ==
  \/ \E url \in ThumbURLS : EnqueueCall(url, MaxThumbTasks)
  \/ \E t \in 1..Len(tasks) : FetchResolves(t)
  \/ \E t \in 1..Len(tasks) : FetchFails(t)
  \/ \E t \in 1..Len(tasks) : Timeout(t)
  \/ \E t \in 1..Len(tasks), json \in ThumbResponses, failItem \in BOOLEAN :
       BodyResolves(t, json, failItem, FALSE)
  \/ \E t \in 1..Len(tasks) : BodyFails(t)

SpecThumb == Init /\ [][NextThumb]_vars

\* ------------------------------------------------------------------------
\* The cache used on its own (by RequestQueue._execute, PreviewUI.show and
\* Preloader): calls of set and get while the clock advances.
\* ------------------------------------------------------------------------
\* the Metadata cached for url: that of a success answer whose title names
\* the page
DataFor(url) == MetadataOf(url, [J_SUCCESS EXCEPT !.title = url])

\* the cache layers after an operation of LRUCache that left them as c
BecomesCache(c) ==
  /\ mem' = c.mem
  /\ store' = c.store
  /\ meta' = c.meta
  /\ sets' = c.sets

\* LRUCache.set(url, DataFor(url))
CacheSet(url, failItem, failMeta) ==
  /\ BecomesCache(LRUCache_set(Cache, url, DataFor(url), now, failItem, failMeta))
  /\ UNCHANGED <<queue, active, inFlight, tasks, metrics, now, got, preloader, ui,
                 settled, returned>>

\* the cache, the counters and the caller's result after a lookup of url
\* that returned g
BecomesGot(g, url) ==
  /\ BecomesCache(g.cache)
  /\ metrics' = g.metrics
  /\ got' = [url |-> url, result |-> g.result, after |-> Cardinality(DOMAIN sets)]

\* LRUCache.get(url); at most maxGets calls are made
CacheGet(url, maxGets) ==
  /\ metrics.cacheHits + metrics.cacheMisses < maxGets
  /\ BecomesGot(LRUCache_get(Cache, metrics, url, now), url)
  /\ UNCHANGED <<queue, active, inFlight, tasks, now, preloader, ui, settled, returned>>

\* the instants at which the cache is used: entries are set at SetInstants
\* and looked up around the end of their TTL
SetInstants == {0, 1}
Instants == SetInstants \cup {CACHE_TTL, CACHE_TTL + 1, CACHE_TTL + 2}

\* time passes until the instant t
Tick(t) ==
  /\ t > now
  /\ now' = t
  /\ UNCHANGED <<queue, active, inFlight, tasks, metrics, mem, store, meta, sets, got,
                 preloader, ui,
                 settled, returned>>

\* The page is left and loaded again: the beforeunload handler saves _meta,
\* the new page starts from the initial values and init() runs
\* LRUCache.init() and LRUCache.checkSize().  localStorage is kept.
Reload ==
  /\ BecomesCache(LRUCache_checkSize(LRUCache_init(saveMeta(Cache, FALSE)), now, FALSE))
  /\ queue' = <<>>
  /\ active' = 0
  /\ inFlight' = [u \in ModelURLs |-> 0]
  /\ tasks' = <<>>
  /\ metrics' = [totalRequests |-> 0, errors |-> 0, cacheHits |-> 0, cacheMisses |-> 0]
  /\ preloader' = NoPreload
  /\ ui' = NoUI
  /\ settled' = NoTask
  /\ returned' = NoCall
  /\ UNCHANGED <<now, got>>

\* two pages of one site, whose keys coincide, and a page of another site
CacheSpecURLS == {U_VIDEO, U_CHANNEL, U_PAGE}

NextCache ==
  \/ \E url \in CacheSpecURLS, failItem \in BOOLEAN :
       now \in SetInstants /\ CacheSet(url, failItem, FALSE)
  \/ \E url \in CacheSpecURLS : CacheGet(url, MaxGets)
  \/ \E t \in Instants : Tick(t)
  \/ Reload

SpecCache == Init /\ [][NextCache]_vars

\* The cache filled beyond its capacity: the pages of LRU_PAGES are set in
\* order, the last of them or U_LONG making CACHE_MAX + 1 distinct urls.
LruSet(url) ==
  /\ url \notin DOMAIN sets
  /\ LET n == Cardinality(DOMAIN sets)
     IN /\ n < Len(LRU_PAGES)
        /\ url = LRU_PAGES[n + 1] \/ (n = CACHE_MAX /\ url = U_LONG)
  /\ CacheSet(url, FALSE, FALSE)

\* the urls looked up in SpecLRU
LruProbes == {LRU_PAGES[1], LRU_PAGES[2]}

NextLRU ==
  \/ \E url \in CacheURLs : LruSet(url)
  \/ \E url \in LruProbes : CacheGet(url, MaxLruGets)

SpecLRU == Init /\ [][NextLRU]_vars

\* The eviction pass, run by a set whose write localStorage refuses: the
\* pages of LRU_PAGES are set in order, the writes are accepted until one is
\* refused (no page has been refused or evicted while every url set has its
\* key in _meta), and the clock may pass the TTL of the pages set so far.
RefusedSet(url) ==
  /\ url \notin DOMAIN sets
  /\ Len(meta) = Cardinality(DOMAIN sets)
  /\ LET n == Cardinality(DOMAIN sets)
     IN n < Len(LRU_PAGES) /\ url = LRU_PAGES[n + 1]
  /\ CacheSet(url, TRUE, FALSE)

EvictInstants == {CACHE_TTL + 1}

NextEvict ==
  \/ \E url \in CacheURLs : LruSet(url)
  \/ \E url \in CacheURLs : RefusedSet(url)
  \/ \E t \in EvictInstants : Tick(t)

SpecEvict == Init /\ [][NextEvict]_vars

\* The cache near its byte budget: two pages are set with short or very long
\* descriptions and looked up, the clock may pass their TTL, and the page is
\* loaded again, which runs checkSize.
SizeURLS == {U_PAGE, U_PAGE_B}
Descriptions == {"D", D_UNDER, D_EDGE, D_OVER}

\* LRUCache.set(url, data) for the Metadata of a page with description d
SizeSet(url, d) ==
  /\ LET data == MetadataOf(url, [J_SUCCESS EXCEPT !.title = url, !.description = d])
     IN BecomesCache(LRUCache_set(Cache, url, data, now, FALSE, FALSE))
  /\ UNCHANGED <<queue, active, inFlight, tasks, metrics, now, got, preloader, ui,
                 settled, returned>>

NextSize ==
  \/ \E url \in SizeURLS, d \in Descriptions : SizeSet(url, d)
  \/ \E url \in SizeURLS : CacheGet(url, MaxGets)
  \/ \E t \in EvictInstants : Tick(t)
  \/ Reload

SpecSize == Init /\ [][NextSize]_vars

\* The Preloader at work: the list is rendered (the renderer replaces the
\* cards and calls rebindPreloader), the observer reports cards entering and
\* leaving the viewport zone, and the timeouts fire.  No response arrives.
Page == [s |-> Cur, p |-> preloader, got |-> got]

BecomesPage(w) ==
  /\ queue' = w.s.queue
  /\ active' = w.s.active
  /\ inFlight' = w.s.inFlight
  /\ tasks' = w.s.tasks
  /\ metrics' = w.s.metrics
  /\ mem' = w.s.cache.mem
  /\ store' = w.s.cache.store
  /\ meta' = w.s.cache.meta
  /\ sets' = w.s.cache.sets
  /\ settled' = w.s.settled
  /\ got' = w.got
  /\ preloader' = w.p

\* the lists the renderer produces: all cards, or a few of them
CardSets == {Cards, {1, 2, 7, 8}}

\* linkList.innerHTML = html, then LinkPreview.rebindPreloader()
Render(cards) ==
  /\ preloader.renders < MaxRenders
  /\ ui' = [ui EXCEPT !.cards = cards]
  /\ preloader' = [rebindPreloader(preloader, cards) EXCEPT !.renders = @ + 1]
  /\ returned' = NoCall
  /\ UNCHANGED <<queue, active, inFlight, tasks, metrics, mem, store, meta, now, sets,
                 got, settled>>

\* the entries one call of the observer's callback may deliver
EntriesOf(cards) ==
  UNION {[1..n -> [target : cards, isIntersecting : BOOLEAN]] : n \in 1..MaxEntries}

\* the urls the Preloader has taken into use: scheduled, waiting for their
\* timeout, or handed to the queue
Used(url) ==
  \/ url \in preloader.preloaded
  \/ \E i \in 1..Len(preloader.timers) : preloader.timers[i] = url
  \/ \E t \in 1..Len(tasks) : tasks[t].url = url

\* The urls of the cards differ in ways no handler of the Preloader reads:
\* a url not yet in use comes into view only after the urls of the cards
\* before it in the list have (now or in an earlier entry of the same call).
InListOrder(entries) ==
  \A i \in 1..Len(entries) :
    LET url == CARD_URLS[entries[i].target]
    IN (entries[i].isIntersecting /\ url # "" /\ ~Used(url)) =>
         \A c \in 1..(entries[i].target - 1) :
           \/ Used(CARD_URLS[c])
           \/ \E j \in 1..(i - 1) :
                entries[j].isIntersecting /\ CARD_URLS[entries[j].target] = CARD_URLS[c]

\* the IntersectionObserver calls back with entries for observed cards
Intersect(entries) ==
  /\ InListOrder(entries)
  /\ metrics.cacheHits + metrics.cacheMisses + Len(entries) <= MaxPreloadGets
  /\ BecomesPage(observerCallback(Page, entries, now))
  /\ returned' = NoCall
  /\ UNCHANGED <<ui, now>>

\* the oldest pending 500 ms timeout fires
TimerFires ==
  /\ preloader.timers # <<>>
  /\ metrics.cacheHits + metrics.cacheMisses < MaxPreloadGets
  /\ LET r == timerCallback([Page EXCEPT !.p.timers = Tail(@)], Head(preloader.timers), now)
     IN /\ BecomesPage(r.w)
        /\ returned' = IF r.called
                         THEN [url |-> Head(preloader.timers), promise |-> r.promise,
                               n |-> IF returned.promise = r.promise
                                       THEN returned.n + 1 ELSE 1]
                         ELSE NoCall
  /\ UNCHANGED <<ui, now>>

NextPreload ==
  \/ \E cards \in CardSets : Render(cards)
  \/ \E entries \in EntriesOf(preloader.observed) : Intersect(entries)
  \/ TimerFires

SpecPreload == Init /\ [][NextPreload]_vars

\* The Preloader next to the user: while timeouts are pending the user rests
\* the pointer on a card, whose request goes to the queue, and the answers
\* to the requests under way arrive.
HoverURLS == {U_PAGE}

HoverCards == {1, 2, 7, 8}

NextPreloadHover ==
  \/ Render(HoverCards)
  \/ \E entries \in EntriesOf(preloader.observed) : Intersect(entries)
  \/ TimerFires
  \/ \E url \in HoverURLS : EnqueueCall(url, MaxThumbTasks)
  \/ \E t \in 1..Len(tasks) : FetchResolves(t)
  \/ \E t \in 1..Len(tasks) : BodyResolves(t, J_SUCCESS, FALSE, FALSE)

SpecPreloadHover == Init /\ [][NextPreloadHover]_vars

\* Previews: the pointer rests on cards, the preview is shown from the cache
\* or asks the queue, answers arrive, the clock passes the TTL and the page
\* is loaded again.
ShowURLS == {U_VIDEO, U_CHANNEL, U_PAGE}
ShowResponses == {J_SUCCESS, J_FAIL}

\* PreviewUI.show(cardEl, url, title)
\* the page after a call of PreviewUI.show(url) that returned r
BecomesShown(r, url) ==
  /\ queue' = r.w.s.queue
  /\ active' = r.w.s.active
  /\ inFlight' = r.w.s.inFlight
  /\ tasks' = r.w.s.tasks
  /\ metrics' = r.w.s.metrics
  /\ BecomesCache(r.w.s.cache)
  /\ settled' = r.w.s.settled
  /\ got' = r.w.got
  /\ ui' = r.w.ui
  /\ returned' = IF r.called
                   THEN [url |-> url, promise |-> r.promise,
                         n |-> IF returned.promise = r.promise
                                 THEN returned.n + 1 ELSE 1]
                   ELSE NoCall

Show(url, failItem) ==
  /\ metrics.cacheHits + metrics.cacheMisses < MaxShows
  /\ BecomesShown(PreviewUI_show([s |-> Cur, ui |-> ui, got |-> got], url, "T", now, failItem), url)
  /\ UNCHANGED <<preloader, now>>

NextShow ==
  \/ \E url \in ShowURLS, failItem \in BOOLEAN : Show(url, failItem)
  \/ \E t \in 1..Len(tasks) : FetchResolves(t)
  \/ \E t \in 1..Len(tasks), json \in ShowResponses : BodyResolves(t, json, FALSE, FALSE)
  \/ \E t \in EvictInstants : Tick(t)
  \/ Reload

SpecShow == Init /\ [][NextShow]_vars

\* The persistent layer over a long session: the pages of LRU_PAGES and
\* U_LONG are set in order, a write of the entry being refused once (set
\* then calls _evict) and writes of the index now and then, checkSize is
\* called at any moment, the clock may pass the TTL and the first pages are
\* looked up after that, when the index is full.
StoreSet(url, failItem, failMeta) ==
  /\ url \notin DOMAIN sets
  /\ LET n == Cardinality(DOMAIN sets)
     IN \/ n < Len(LRU_PAGES) /\ url = LRU_PAGES[n + 1]
        \/ n = Len(LRU_PAGES) /\ url = U_LONG
  /\ (failItem \/ failMeta) =>
       /\ ~(failItem /\ failMeta)
       /\ Len(meta) = Cardinality(DOMAIN sets)
       /\ meta # <<>> =>
            /\ getItemPresent(store, CACHE_META_KEY)
            /\ getItem(store, CACHE_META_KEY) = JSONstringify(meta)
  /\ CacheSet(url, failItem, failMeta)

\* LRUCache.get(url) while localStorage holds CACHE_MAX entries, some of them
\* older than the TTL; a get of a younger entry leaves localStorage as it is
StoreGet(url) ==
  /\ now > CACHE_TTL
  /\ Len(meta) = CACHE_MAX
  /\ CacheGet(url, MaxLruGets)

\* LRUCache.checkSize()
CheckSize ==
  /\ BecomesCache(LRUCache_checkSize(Cache, now, FALSE))
  /\ UNCHANGED <<queue, active, inFlight, tasks, metrics, now, got, preloader, ui,
                 settled, returned>>

NextStore ==
  \/ \E url \in CacheURLs, failItem \in BOOLEAN, failMeta \in BOOLEAN :
       StoreSet(url, failItem, failMeta)
  \/ CheckSize
  \/ \E url \in LruProbes : StoreGet(url)
  \/ \E t \in EvictInstants : Tick(t)

SpecStore == Init /\ [][NextStore]_vars

\* ------------------------------------------------------------------------
\* Properties
\* ------------------------------------------------------------------------
TaskIds == 1..Len(tasks)
Live(t) == tasks[t].phase # "settled"
Running(t) == tasks[t].phase \in {"fetch", "body"}
TasksOf(url) == {t \in TaskIds : tasks[t].url = url}
IsMetadata(v) ==
  DOMAIN v = {"title", "description", "image", "favicon", "domain", "isChannel"}

\* C1: _active stays within 0..MAX_CONCURRENT and equals the number of
\* attempts that have started and not finished.
C1_ActiveCountsRunning ==
  /\ active \in 0..MAX_CONCURRENT
  /\ active = Cardinality({t \in TaskIds : Running(t)})

\* the ceiling binds: both slots taken, one by a retry, while a task waits
C1_Witness ==
  /\ active = MAX_CONCURRENT
  /\ Len(queue) > 0
  /\ \E t \in TaskIds : Running(t) /\ tasks[t].retries > 0

\* C2 (as claimed): for every URL at most one task is queued or in flight at
\* any time, retries included.
C2_OneLiveTaskPerUrl ==
  \A url \in ModelURLs : Cardinality({t \in TasksOf(url) : Live(t)}) <= 1

\* the first network attempt for url has not finished: task t for url was
\* created when no other task for url was unsettled, and has neither settled
\* nor been re-queued
FirstWindow(url, t) ==
  /\ tasks[t].url = url
  /\ tasks[t].alone
  /\ Live(t)
  /\ tasks[t].retries = 0

\* C3: while the first network attempt for a URL has not finished, there is
\* one unsettled task and at most one network call for it, and every
\* enqueue(url) returns that task's promise.
C3_DedupInFirstWindow ==
  \A url \in ModelURLs : \A t \in TaskIds :
    FirstWindow(url, t) =>
      /\ {i \in TasksOf(url) : Live(i)} = {t}
      /\ tasks[t].attempts <= 1
      /\ inFlight[url] = t
      /\ returned.url = url => returned.promise = t

\* three calls in a row got the promise of a task in its first attempt
C3_Witness ==
  /\ returned.n >= 3
  /\ FirstWindow(returned.url, returned.promise)
  /\ tasks[returned.promise].phase = "fetch"
  /\ tasks[returned.promise].attempts = 1

\* C4: a task all of whose attempts failed with a retryable error settles
\* after exactly 1 + MAX_RETRY attempts, with null, and the handler that
\* settles it leaves no _inFlight entry for its URL; no task is attempted
\* more often.
C4_RetryBound ==
  /\ \A t \in TaskIds : tasks[t].attempts <= MAX_RETRY + 1
  /\ (settled.task # 0 /\ settled.rfails = settled.attempts) =>
       /\ settled.attempts = MAX_RETRY + 1
       /\ settled.value = Null
       /\ tasks[settled.task].promise = "fulfilled"
       /\ tasks[settled.task].value = Null
       /\ inFlight[settled.url] = 0

\* a task has just given up after failing every attempt
C4_Witness ==
  /\ settled.task # 0
  /\ settled.attempts > 0
  /\ settled.rfails = settled.attempts

\* C5: when a success answer arrives for a task (of a parsable URL) whose k
\* earlier attempts failed with retryable errors, the task's promise is
\* fulfilled with the Metadata of that answer and the task has made k + 1
\* network calls, k <= MAX_RETRY.
C5_SuccessAfterFailures ==
  [][\A t \in TaskIds : \A failItem, failMeta \in BOOLEAN :
       (ParseURL(tasks[t].url).ok /\ BodyResolves(t, J_SUCCESS, failItem, failMeta)) =>
         /\ tasks'[t].promise = "fulfilled"
         /\ tasks'[t].value = MetadataOf(tasks[t].url, J_SUCCESS)
         /\ settled'.task = t
         /\ settled'.value = tasks'[t].value
         /\ settled'.attempts = tasks[t].rfails + 1
         /\ tasks[t].rfails <= MAX_RETRY]_vars

\* a task has just succeeded on its third attempt
C5_Witness ==
  /\ settled.task # 0
  /\ settled.value # Null
  /\ settled.rfails = MAX_RETRY
  /\ settled.attempts = MAX_RETRY + 1

\* C6: a promise of enqueue is pending or fulfilled, never rejected; resolve
\* is called at most once per task, with a Metadata record or null.
C6_PromiseOnlyResolves ==
  \A t \in TaskIds :
    /\ tasks[t].promise \in {"pending", "fulfilled"}
    /\ tasks[t].resolves <= 1
    /\ tasks[t].promise = "pending" <=> tasks[t].resolves = 0
    /\ tasks[t].promise = "pending" <=> Live(t)
    /\ tasks[t].promise = "fulfilled" =>
         tasks[t].value = Null \/ IsMetadata(tasks[t].value)

\* a task was fulfilled with Metadata although localStorage refused the entry
C6_Witness ==
  /\ settled.task # 0
  /\ IsMetadata(settled.value)
  /\ tasks[settled.task].promise = "fulfilled"
  /\ makeKeyOf[settled.url] \notin DOMAIN store
  /\ \E t \in TaskIds : tasks[t].promise = "fulfilled" /\ tasks[t].value = Null

\* C7 (as claimed): every attempt that has not finished is under the
\* timeout, whether it waits for the headers or for the body.
C7_EveryAttemptTimed ==
  \A t \in TaskIds : Running(t) => tasks[t].timer

\* C8: between handlers, tasks wait only while both slots are taken.
C8_NoIdleSlot == Len(queue) > 0 => active = MAX_CONCURRENT

\* a task has just settled with null and the slots are taken again while a
\* task still waits
C8_Witness ==
  /\ settled.task # 0
  /\ settled.value = Null
  /\ Len(queue) > 0
  /\ active = MAX_CONCURRENT

\* C9: a re-queued task never waits: at the end of the handler that re-queued
\* it its next attempt is under way, whatever else is in the queue; only
\* tasks that have never been attempted wait.
C9_RetryServedFirst ==
  \A t \in TaskIds :
    /\ tasks[t].phase = "queued" => tasks[t].retries = 0 /\ tasks[t].attempts = 0
    /\ Running(t) => tasks[t].attempts = tasks[t].retries + 1

\* a handler has just re-queued a task over a waiting one
C9_Witness ==
  /\ settled = NoTask
  /\ returned = NoCall
  /\ Len(queue) > 0
  /\ \E t \in TaskIds :
       tasks[t].phase = "fetch" /\ tasks[t].retries > 0 /\ tasks[t].attempts = tasks[t].retries + 1

\* C10: first attempts start in the order of creation: a task waits only if
\* every task created after it waits too, and the queue is in creation order.
C10_Fifo ==
  /\ \A t1, t2 \in TaskIds :
       t1 < t2 /\ tasks[t1].phase = "queued" => tasks[t2].phase = "queued"
  /\ \A i, j \in 1..Len(queue) : i < j => queue[i] < queue[j]

\* of two waiting tasks the older one has just been started
C10_Witness ==
  /\ settled.task # 0
  /\ \E t \in TaskIds :
       /\ t + 1 \in TaskIds
       /\ tasks[t].phase = "fetch" /\ tasks[t].attempts = 1
       /\ tasks[t + 1].phase = "queued"

\* C11 (as claimed): a timeout is handled like a network failure: while
\* task.retries < MAX_RETRY the handler of the timeout re-queues the task
\* (one more retry, promise still pending) and its next attempt is made.
C11_TimeoutRetried ==
  [][\A t \in TaskIds :
       (tasks[t].retries < MAX_RETRY /\ Timeout(t)) =>
         /\ tasks'[t].promise = "pending"
         /\ tasks'[t].retries = tasks[t].retries + 1
         /\ tasks'[t].attempts = tasks[t].attempts + 1]_vars

\* C12 (as claimed): an answer whose status is not "success" is a failure on
\* the retry path: while task.retries < MAX_RETRY the handler of the answer
\* counts a retry, re-queues the task and leaves the promise pending.
C12_NonSuccessRetried ==
  [][\A t \in TaskIds :
       (tasks[t].retries < MAX_RETRY /\ BodyResolves(t, J_FAIL, FALSE, FALSE)) =>
         /\ tasks'[t].promise = "pending"
         /\ tasks'[t].retries = tasks[t].retries + 1
         /\ tasks'[t].attempts = tasks[t].attempts + 1]_vars

\* C13 (as claimed): the handler that resolves a promise with null adds
\* exactly one to metrics.errors, and no other handler changes the counter.
C13_NullCountsOneError ==
  [][metrics'.errors =
       metrics.errors + (IF settled'.task # 0 /\ settled'.value = Null THEN 1 ELSE 0)]_vars

\* C14: when a success answer arrives for a URL from which extract gets a
\* thumbnail, the Metadata the promise is fulfilled with has that thumbnail
\* as its image, whether the answer carries another image or none.
C14_HeuristicPrecedence ==
  [][\A t \in TaskIds : \A json \in ThumbResponses : \A failItem \in BOOLEAN :
       (/\ extractOf[tasks[t].url] # ""
        /\ json.status = "success" /\ json.hasData
        /\ BodyResolves(t, json, failItem, FALSE)) =>
         /\ IsMetadata(tasks'[t].value)
         /\ tasks'[t].value.image = extractOf[tasks[t].url]]_vars

\* a promise for the short video URL was fulfilled with the video's thumbnail
C14_Witness ==
  /\ settled.task # 0
  /\ settled.url = U_SHORT
  /\ IsMetadata(settled.value)
  /\ settled.value.image = "https://i.ytimg.com/vi/dQw4w9WgXcQ/hqdefault.jpg"

\* C15: when a success answer arrives for a URL that isChannelPage accepts,
\* the Metadata the promise is fulfilled with, the entry put into _mem and
\* the entry written to localStorage have an empty image, whatever image the
\* answer carries.
C15_ChannelSuppression ==
  [][\A t \in TaskIds : \A json \in ThumbResponses : \A failItem \in BOOLEAN :
       (/\ isChannelPageOf[tasks[t].url]
        /\ json.status = "success" /\ json.hasData
        /\ BodyResolves(t, json, failItem, FALSE)) =>
         /\ IsMetadata(tasks'[t].value)
         /\ tasks'[t].value.image = ""
         /\ MapHas(mem', tasks[t].url)
         /\ MapGet(mem', tasks[t].url).data.image = ""
         /\ ~failItem =>
              JSONparse(getItem(store', makeKeyOf[tasks[t].url])).data.image = ""]_vars

\* a promise for the channel page was fulfilled with an empty image and the
\* entry was persisted
C15_Witness ==
  /\ settled.task # 0
  /\ settled.url = U_CHANNEL
  /\ IsMetadata(settled.value)
  /\ settled.value.image = ""
  /\ settled.value.isChannel
  /\ getItemPresent(store, makeKeyOf[U_CHANNEL])
  /\ JSONparse(getItem(store, makeKeyOf[U_CHANNEL])).data = settled.value

\* C16 (as claimed): a call get(url), for a url last set at time T, returns
\* the data of that set when made before T + CACHE_TTL, and returns null
\* and counts a miss when made after T + CACHE_TTL.
C16_TTL ==
  [][\A url \in CacheSpecURLS :
       (url \in DOMAIN sets /\ CacheGet(url, MaxGets)) =>
         /\ now < sets[url].ts + CACHE_TTL => got'.result = sets[url].data
         /\ now > sets[url].ts + CACHE_TTL =>
              /\ got'.result = Null
              /\ metrics'.cacheMisses = metrics.cacheMisses + 1]_vars

\* what a call get(url) made now would return
GetNow(url) == LRUCache_get(Cache, metrics, url, now).result

\* CACHE_MAX pages were set, then get refreshed the first of them, then one
\* more page was set
RefreshedThenOverfilled ==
  /\ Cardinality(DOMAIN sets) = CACHE_MAX + 1
  /\ U_LONG \notin DOMAIN sets
  /\ metrics.cacheHits + metrics.cacheMisses = 1
  /\ got.url = LRU_PAGES[1]
  /\ got.after = CACHE_MAX
  /\ got.result = sets[LRU_PAGES[1]].data

\* C17 (as claimed): after set of CACHE_MAX pages, a get of the first and
\* set of one more page, the second page (the least recently accessed) is
\* the one page get no longer returns; the first and all others are returned.
C17_LeastRecentlyAccessedEvicted ==
  RefreshedThenOverfilled =>
    /\ GetNow(LRU_PAGES[2]) = Null
    /\ \A url \in DOMAIN sets \ {LRU_PAGES[2]} : GetNow(url) = sets[url].data

\* CACHE_MAX + 1 distinct urls were set and get was never called
Overfilled ==
  /\ Cardinality(DOMAIN sets) = CACHE_MAX + 1
  /\ metrics.cacheHits + metrics.cacheMisses = 0

\* C18 (as claimed): after set of CACHE_MAX + 1 distinct urls and no get,
\* get of the first url returns null and get of every other url returns the
\* data it was set with.
C18_FirstInsertedEvicted ==
  Overfilled =>
    /\ GetNow(LRU_PAGES[1]) = Null
    /\ \A url \in DOMAIN sets \ {LRU_PAGES[1]} : GetNow(url) = sets[url].data

\* the cache after a call get(url) made now
AfterGet(url) == LRUCache_get(Cache, metrics, url, now).cache

\* C19: get(url) made in any state: an entry of _mem younger than the TTL is
\* returned and moved to the end of _mem, localStorage untouched; without
\* such an entry (none, or one older than the TTL, which is removed) the
\* entry under the url's key in localStorage decides: younger than the TTL,
\* it is put into _mem and its data returned; older than the TTL, it is
\* removed from localStorage and null is returned; absent, null is returned.
C19_GetLayers ==
  \A url \in CacheSpecURLS :
    LET inMem == MapHas(mem, url)
        age == now - MapGet(mem, url).ts
        key == makeKeyOf[url]
        persisted == getItemPresent(store, key)
        entry == JSONparse(getItem(store, key))
        after == AfterGet(url)
    IN /\ (inMem /\ age < CACHE_TTL) =>
            /\ GetNow(url) = MapGet(mem, url).data
            /\ after.mem[Len(after.mem)].url = url
            /\ MapDelete(after.mem, url) = MapDelete(mem, url)
            /\ after.store = store
       /\ (~inMem \/ age > CACHE_TTL) =>
            /\ (persisted /\ now - entry.ts < CACHE_TTL) =>
                 /\ GetNow(url) = entry.data
                 /\ MapHas(after.mem, url)
                 /\ MapGet(after.mem, url) = entry
                 /\ after.store = store
            /\ (persisted /\ now - entry.ts > CACHE_TTL) =>
                 /\ GetNow(url) = Null
                 /\ ~getItemPresent(after.store, key)
                 /\ ~MapHas(after.mem, url)
            /\ ~persisted =>
                 /\ GetNow(url) = Null
                 /\ ~MapHas(after.mem, url)

\* in a freshly loaded page get has found the page's entry in localStorage
\* and put it into _mem
C19_Witness ==
  /\ now = CACHE_TTL
  /\ got.url = U_PAGE
  /\ U_PAGE \in DOMAIN sets
  /\ got.result = sets[U_PAGE].data
  /\ metrics.cacheHits = 1
  /\ Len(mem) = 1
  /\ mem[1].url = U_PAGE
  /\ mem[1].entry.hits = 1
  /\ mem[1].entry = JSONparse(getItem(store, makeKeyOf[U_PAGE]))

\* the cache after a call set(url, DataFor(url)) made now whose write
\* localStorage refuses
AfterRefusedSet(url) == LRUCache_set(Cache, url, DataFor(url), now, TRUE, FALSE)

\* C20: a call set(url, data) whose write localStorage refuses, made in any
\* state, leaves the entry in _mem and the url's string in localStorage as it
\* was, runs the eviction pass (no key of an entry older than the TTL stays in
\* _meta), and a get(url) that follows at once returns data.
C20_RefusedWrite ==
  \A url \in CacheSpecURLS :
    LET c == AfterRefusedSet(url)
        key == makeKeyOf[url]
    IN /\ MapHas(c.mem, url)
       /\ MapGet(c.mem, url) = [data |-> DataFor(url), ts |-> now, hits |-> 1]
       /\ LRUCache_get(c, metrics, url, now).result = DataFor(url)
       /\ getItemPresent(c.store, key) =>
            getItemPresent(store, key) /\ getItem(c.store, key) = getItem(store, key)
       /\ \A i \in 1..Len(c.meta) :
            /\ getItemPresent(c.store, c.meta[i])
            /\ now - JSONparse(getItem(c.store, c.meta[i])).ts <= CACHE_TTL

\* a set whose write was refused was followed by a get that returned its data
C20_Witness ==
  /\ got.url = U_PAGE
  /\ U_PAGE \in DOMAIN sets
  /\ got.result = sets[U_PAGE].data
  /\ ~getItemPresent(store, makeKeyOf[U_PAGE])
  /\ MapHas(mem, U_PAGE)
  /\ MapGet(mem, U_PAGE).hits = 2

\* the keys of _meta whose persisted entry is older than the TTL, and the
\* keys of the other persisted entries, in the order of _meta
ExpiredKeys ==
  {meta[i] : i \in {j \in 1..Len(meta) :
     /\ getItemPresent(store, meta[j])
     /\ now - JSONparse(getItem(store, meta[j])).ts > CACHE_TTL}}
UnexpiredKeys ==
  SelectSeq(meta, LAMBDA k : getItemPresent(store, k) /\ k \notin ExpiredKeys)

\* C21 (as claimed): the eviction pass removes every persisted entry older
\* than the TTL; when at most CACHE_MAX entries remain it removes none of
\* them; when more remain it removes the oldest inserted, down to
\* CACHE_MAX - CACHE_EVICT_MARGIN entries.
C21_EvictPhases ==
  [][\A url \in CacheURLs :
       RefusedSet(url) =>
         /\ \A k \in ExpiredKeys : ~getItemPresent(store', k)
         /\ Len(UnexpiredKeys) <= CACHE_MAX =>
              /\ meta' = UnexpiredKeys
              /\ \A i \in 1..Len(UnexpiredKeys) : getItemPresent(store', UnexpiredKeys[i])
         /\ Len(UnexpiredKeys) > CACHE_MAX =>
              /\ meta' = SubSeq(UnexpiredKeys,
                                Len(UnexpiredKeys) - (CACHE_MAX - CACHE_EVICT_MARGIN) + 1,
                                Len(UnexpiredKeys))
              /\ \A i \in 1..Len(UnexpiredKeys) :
                   getItemPresent(store', UnexpiredKeys[i])
                     <=> \E j \in 1..Len(meta') : meta'[j] = UnexpiredKeys[i]]_vars

\* the cache as the freshly loaded page finds it when checkSize starts
AtLoad == LRUCache_init(saveMeta(Cache, FALSE))

\* the characters of the persisted entries of the urls (their keys differ),
\* and of the stored index itself
RECURSIVE EntryChars(_, _)
EntryChars(st, urls) ==
  IF urls = {} THEN 0
  ELSE LET url == CHOOSE u \in urls : TRUE
       IN (IF getItemPresent(st, makeKeyOf[url])
             THEN EntryLength(JSONparse(getItem(st, makeKeyOf[url]))) ELSE 0)
          + EntryChars(st, urls \ {url})
IndexChars(st) == ArrayLength(JSONparse(getItem(st, CACHE_META_KEY)))

\* what the eviction pass leaves of the cache found at load: no entry older
\* than the TTL, and the index without their keys
Evicted ==
  /\ \A i \in 1..Len(AtLoad.meta) :
       getItemPresent(store', AtLoad.meta[i]) <=>
         /\ getItemPresent(AtLoad.store, AtLoad.meta[i])
         /\ now - JSONparse(getItem(AtLoad.store, AtLoad.meta[i])).ts <= CACHE_TTL
  /\ meta' = SelectSeq(AtLoad.meta, LAMBDA k : getItemPresent(store', k))
  /\ JSONparse(getItem(store', CACHE_META_KEY)) = meta'
Untouched ==
  /\ mem' = AtLoad.mem
  /\ store' = AtLoad.store
  /\ meta' = AtLoad.meta

\* C22 (as claimed): checkSize runs the eviction pass if and only if twice
\* the number of characters of the persisted entries exceeds
\* CACHE_MAX_BYTES, and otherwise leaves _mem, localStorage and _meta as they
\* were.
C22_CheckSizeEntries ==
  [][Reload =>
       IF 2 * EntryChars(AtLoad.store, SizeURLS) > CACHE_MAX_BYTES
         THEN Evicted ELSE Untouched]_vars

\* C22 (amended): checkSize runs the eviction pass if and only if twice the
\* number of characters stored under the keys with the cache's prefix, the
\* persisted entries and the index, exceeds CACHE_MAX_BYTES, and otherwise
\* leaves _mem, localStorage and _meta as they were.
C22_CheckSizePrefixed ==
  [][Reload =>
       IF 2 * (EntryChars(AtLoad.store, SizeURLS) + IndexChars(AtLoad.store))
            > CACHE_MAX_BYTES
         THEN Evicted ELSE Untouched]_vars

\* two pages whose entries alone fill the budget were set, their TTL passed,
\* and the check at the next load has evicted both
C22_Witness ==
  /\ DOMAIN sets = SizeURLS
  /\ \A url \in SizeURLS : sets[url].data.description = D_EDGE /\ sets[url].ts = 0
  /\ now = CACHE_TTL + 1
  /\ mem = <<>>
  /\ meta = <<>>
  /\ \A url \in SizeURLS : ~getItemPresent(store, makeKeyOf[url])

\* C23: a call of get adds 1 to cacheHits, and nothing to cacheMisses, when
\* it returns an entry's data, and 1 to cacheMisses, and nothing to
\* cacheHits, when it returns null; no other step of a page changes either
\* counter, so that their sum is the number of calls of get the page made.
C23_OneCounterPerGet ==
  [][/\ \A url \in CacheSpecURLS :
          CacheGet(url, MaxGets) =>
            /\ got'.result # Null =>
                 /\ metrics'.cacheHits = metrics.cacheHits + 1
                 /\ metrics'.cacheMisses = metrics.cacheMisses
            /\ got'.result = Null =>
                 /\ metrics'.cacheMisses = metrics.cacheMisses + 1
                 /\ metrics'.cacheHits = metrics.cacheHits
     /\ (\/ metrics'.cacheHits # metrics.cacheHits
         \/ metrics'.cacheMisses # metrics.cacheMisses) =>
          \/ \E url \in CacheSpecURLS : CacheGet(url, MaxGets)
          \/ Reload]_vars

\* a page has made two calls of get, one that returned data and then one
\* that removed an entry older than the TTL and returned null
C23_Witness ==
  /\ metrics.cacheHits = 1
  /\ metrics.cacheMisses = 1
  /\ got.result = Null
  /\ got.url \in DOMAIN sets
  /\ now - sets[got.url].ts > CACHE_TTL
  /\ ~getItemPresent(store, makeKeyOf[got.url])

\* C24: the urls scheduled for preload since the last reset are at most
\* PRELOAD_VIEWPORT.
C24_PreloadBudget == Len(preloader.scheduled) <= PRELOAD_VIEWPORT

\* the budget is used up and the callback has looked up one more url, found
\* no entry for it and not scheduled it
C24_Witness ==
  /\ Len(preloader.scheduled) = PRELOAD_VIEWPORT
  /\ got.url # ""
  /\ got.result = Null
  /\ got.url \notin preloader.preloaded
  /\ \A i \in 1..Len(preloader.timers) : preloader.timers[i] # got.url

\* C25: no url has been scheduled for preload twice since the last reset.
C25_ScheduledOnce ==
  \A i, j \in 1..Len(preloader.scheduled) :
    i # j => preloader.scheduled[i] # preloader.scheduled[j]

\* a card came into view whose url had already been scheduled in this
\* cycle (the same card again, or the other card with that url), and the
\* callback left it alone
C25_Witness ==
  /\ preloader.skipped # ""
  /\ \E i \in 1..Len(preloader.scheduled) : preloader.scheduled[i] = preloader.skipped
  /\ preloader.preloadCount = Len(preloader.scheduled)
  /\ preloader.preloadCount < PRELOAD_VIEWPORT

\* C26: when the list is rendered, rebindPreloader leaves the budget
\* counter at 0, the set of scheduled urls empty, and exactly the cards of
\* the new list observed.
C26_RebindResets ==
  [][\A cards \in CardSets :
       Render(cards) =>
         /\ preloader'.preloadCount = 0
         /\ preloader'.preloaded = {}
         /\ preloader'.observed = cards
         /\ ui'.cards = cards]_vars

\* the list was rendered again, with fewer cards, after urls had been
\* scheduled for the cards of the first list
C26_Witness ==
  /\ preloader.renders = 2
  /\ preloader.timers # <<>>
  /\ preloader.preloadCount = 0
  /\ preloader.preloaded = {}
  /\ preloader.observed = {1, 2, 7, 8}
  /\ preloader.observed # Cards

\* C30: in the state a handler leaves when it has resolved a task's promise
\* with a Metadata, the state in which the callers' reactions run, _mem
\* holds an entry for the task's url with exactly that Metadata, written at
\* that time.
C30_CachedWhenResolved ==
  (settled.task # 0 /\ settled.value # Null) =>
    /\ MapHas(mem, settled.url)
    /\ MapGet(mem, settled.url) = [data |-> settled.value, ts |-> now, hits |-> 1]

\* a promise has just been resolved with a Metadata although localStorage
\* refused the entry
C30_Witness ==
  /\ settled.task # 0
  /\ IsMetadata(settled.value)
  /\ tasks[settled.task].promise = "fulfilled"
  /\ MapHas(mem, settled.url)
  /\ ~getItemPresent(store, makeKeyOf[settled.url])

\* C29 (as claimed): _inFlight has an entry for a url exactly while a task
\* for the url is queued, under way or waiting for its retry, and the entry
\* is the one that task registered.
C29_InFlightWhileLive ==
  \A url \in ModelURLs :
    /\ inFlight[url] # 0 <=> \E t \in TasksOf(url) : Live(t)
    /\ inFlight[url] # 0 => inFlight[url] \in TasksOf(url) /\ Live(inFlight[url])

\* C28: a step changes localStorage only under keys that start with
\* CACHE_KEY_PREFIX: every key it adds, removes or rewrites has the prefix,
\* and what other modules keep under other keys stays as it is.
C28_PrefixedKeysOnly ==
  [][\A k \in DOMAIN store \cup DOMAIN store' :
       (\/ k \notin DOMAIN store
        \/ k \notin DOMAIN store'
        \/ store[k] # store'[k]) => startsWithPrefixOf[k]]_vars

\* the cache has written an entry and the index, has removed the entry of
\* another page, and the saved queries of the page are where they were
C28_Witness ==
  /\ DOMAIN sets = SizeURLS
  /\ getItemPresent(store, CACHE_META_KEY)
  /\ \E url \in SizeURLS : getItemPresent(store, makeKeyOf[url])
  /\ \E url \in SizeURLS : ~getItemPresent(store, makeKeyOf[url])
  /\ got.result = Null
  /\ got.url \in SizeURLS
  /\ getItemPresent(store, STORAGE_KEY)
  /\ getItem(store, STORAGE_KEY) = JSONstringify(<<>>)

\* the cache holds an entry for url younger than the TTL, in _mem or, when
\* _mem has none, in localStorage
CachedWithinTTL(url) ==
  \/ MapHas(mem, url) /\ now - MapGet(mem, url).ts < CACHE_TTL
  \/ /\ ~MapHas(mem, url)
     /\ getItemPresent(store, makeKeyOf[url])
     /\ now - JSONparse(getItem(store, makeKeyOf[url])).ts < CACHE_TTL

\* C27: show(url) for a url with a cache entry younger than the TTL displays
\* the entry's data at once and leaves the queue, its tasks, the in-flight
\* index and the count of network calls as they were; show calls enqueue
\* only when get has returned null for the url.
C27_ServedFromCache ==
  [][\A url \in ShowURLS, failItem \in BOOLEAN :
       Show(url, failItem) =>
         /\ CachedWithinTTL(url) =>
              /\ ui'.state = "content"
              /\ ui'.data = IF extractOf[url] # ""
                              THEN [GetNow(url) EXCEPT !.image = extractOf[url]]
                              ELSE GetNow(url)
              /\ returned' = NoCall
              /\ UNCHANGED <<queue, active, inFlight, tasks>>
              /\ metrics'.totalRequests = metrics.totalRequests
         /\ (returned' # NoCall \/ tasks' # tasks) =>
              /\ got'.url = url
              /\ got'.result = Null
              /\ metrics'.cacheMisses = metrics.cacheMisses + 1]_vars

\* a preview was fetched through the queue and, shown again, was served from
\* the cache without another task
C27_Witness ==
  /\ ui.state = "content"
  /\ ui.currentUrl = U_PAGE
  /\ got.url = U_PAGE
  /\ got.result # Null
  /\ ui.data = got.result
  /\ returned = NoCall
  /\ Len(tasks) = 1
  /\ tasks[1].phase = "settled"
  /\ metrics.cacheHits = 1
  /\ metrics.cacheMisses = 1
  /\ metrics.totalRequests = 1

\* C31: after any sequence of set and get operations, gets that promote an
\* entry from localStorage included, _mem never holds more than CACHE_MAX
\* entries.
C31_MemBounded == Len(mem) <= CACHE_MAX

\* C32: get never returns Metadata that set stored for another url: a url
\* that was never set is answered with null, whatever other urls were set.
C32_NoForeignData ==
  \A url \in CacheSpecURLS : url \notin DOMAIN sets => GetNow(url) = Null

\* the entries get(url) can be served from: the url's entry in _mem and the
\* entry under the url's key in localStorage
EntriesFor(url) ==
  (IF MapHas(mem, url) THEN {MapGet(mem, url)} ELSE {}) \cup
  (IF getItemPresent(store, makeKeyOf[url])
     THEN {JSONparse(getItem(store, makeKeyOf[url]))} ELSE {})

\* C33: get(url) returns an entry's data only if now - ts < CACHE_TTL for
\* that entry, in whichever layer serves the lookup; an entry whose age is
\* CACHE_TTL or more is never returned.
C33_YoungerThanTTL ==
  \A url \in CacheSpecURLS :
    GetNow(url) # Null =>
      \E e \in EntriesFor(url) : e.data = GetNow(url) /\ now - e.ts < CACHE_TTL

\* C34: neither a memory hit nor a promotion from localStorage changes an
\* entry's timestamp: the entry a url was last set with at time T is returned
\* by no get made after T + CACHE_TTL, however many gets came in between.
C34_TimestampKept ==
  \A url \in DOMAIN sets :
    now > sets[url].ts + CACHE_TTL =>
      \A u \in CacheSpecURLS : GetNow(u) # sets[url].data

\* the page was set at 0, one get was served with it and a later get, made
\* after the end of its TTL, returned null
C34_Witness ==
  /\ U_PAGE \in DOMAIN sets
  /\ sets[U_PAGE].ts = 0
  /\ now > CACHE_TTL
  /\ got.url = U_PAGE
  /\ got.result = Null
  /\ metrics.cacheHits = 1
  /\ metrics.cacheMisses = 1

\* C35: after set(url, data) the url's entry is the most recently used one
\* of _mem (the last one capacity evictions would remove), whether the url
\* was absent or present before, and overwriting a url that was present
\* removes no other entry from _mem.
C35_SetMostRecent ==
  \A url \in CacheSpecURLS, failItem \in BOOLEAN :
    LET after == LRUCache_set(Cache, url, DataFor(url), now, failItem, FALSE).mem
    IN /\ after[Len(after)].url = url
       /\ MapHas(mem, url) => MapDelete(after, url) = MapDelete(mem, url)

\* the keys of the cache entries held in localStorage
StoreEntries(st) == {k \in DOMAIN st : startsWithPrefixOf[k] /\ k # CACHE_META_KEY}

\* C36: from an empty localStorage, after any sequence of set, get, _evict
\* and checkSize the number of cache entries in localStorage never exceeds
\* CACHE_MAX, and right after _evict() it is at most
\* CACHE_MAX - CACHE_EVICT_MARGIN.
C36_StoreBounded ==
  /\ Cardinality(StoreEntries(store)) <= CACHE_MAX
  /\ Cardinality(StoreEntries(evict(Cache, now, FALSE).store))
       <= CACHE_MAX - CACHE_EVICT_MARGIN

\* more than CACHE_MAX pages were set: the first page's entry has been
\* shifted out, localStorage holds CACHE_MAX entries and a pass of _evict
\* would leave CACHE_MAX - CACHE_EVICT_MARGIN of them
C36_Witness ==
  /\ Cardinality(DOMAIN sets) > CACHE_MAX
  /\ ~getItemPresent(store, makeKeyOf[LRU_PAGES[1]])
  /\ Cardinality(StoreEntries(store)) = CACHE_MAX
  /\ Cardinality(StoreEntries(evict(Cache, now, FALSE).store))
       = CACHE_MAX - CACHE_EVICT_MARGIN

\* C37: a task that resolves to null never writes to the cache: only a
\* step that resolves a task with Metadata changes _mem, localStorage or
\* _meta, so a failure (non-success answer, retries exhausted, timeout)
\* leaves what get returns as it was, and the url is no longer in flight, so
\* that the next request for it creates a task with a network call of its own.
C37_FailuresNotCached ==
  [][/\ <<mem, store, meta>>' # <<mem, store, meta>> =>
          (settled' # NoTask /\ settled'.value # Null)
     /\ (settled' # NoTask /\ settled'.value = Null) =>
          /\ <<mem, store, meta>>' = <<mem, store, meta>>
          /\ inFlight'[settled'.url] = 0
          /\ \A url \in URLS :
               LRUCache_get(Cache', metrics', url, now').result
                 = LRUCache_get(Cache, metrics, url, now).result]_vars

\* the page's first task settled with null and nothing was cached; a later
\* request created a second task, whose network call is under way
C37_Witness ==
  /\ Len(tasks) = 2
  /\ tasks[1].url = U_PAGE
  /\ tasks[1].phase = "settled"
  /\ tasks[1].value = Null
  /\ tasks[2].url = U_PAGE
  /\ tasks[2].alone
  /\ tasks[2].phase = "fetch"
  /\ metrics.totalRequests >= 2
  /\ mem = <<>>
  /\ ~getItemPresent(store, makeKeyOf[U_PAGE])

\* C38: at any time at most PRELOAD_VIEWPORT preload timeouts are pending,
\* and a timeout set before a reset() calls no enqueue after that reset().
\* When more timeouts are pending than urls were scheduled since the last
\* reset, the oldest of them was set before that reset: the step in which
\* it fires must return without a call of enqueue.
C38_PendingWithinBudget ==
  [][/\ Len(preloader'.timers) <= PRELOAD_VIEWPORT
     /\ ( /\ Len(preloader.timers) > Len(preloader.scheduled)
          /\ preloader'.timers = Tail(preloader.timers) ) => returned' = NoCall]_vars

\* C39: when a preload's timeout fires, enqueue is called exactly when get
\* finds no entry for the url: if the url's Metadata was cached during the
\* delay and is within its TTL, the step calls no enqueue, creates no task
\* and starts no network call.
C39_PreloadRechecksCache ==
  [][(preloader.timers # <<>> /\ preloader'.timers = Tail(preloader.timers)) =>
       LET url == Head(preloader.timers)
       IN /\ (returned' # NoCall) <=> (GetNow(url) = Null)
          /\ returned' # NoCall => returned'.url = url
          /\ (MapHas(mem, url) /\ now - MapGet(mem, url).ts < CACHE_TTL) =>
               /\ returned' = NoCall
               /\ tasks' = tasks
               /\ inFlight' = inFlight
               /\ metrics'.totalRequests = metrics.totalRequests]_vars

\* a url was scheduled for preload, the user's request for it was answered
\* and cached before the timeout fired, and the timeout's callback found the
\* entry: the one task of the page is the user's
C39_Witness ==
  /\ preloader.scheduled = <<U_PAGE>>
  /\ preloader.timers = <<>>
  /\ Len(tasks) = 1
  /\ tasks[1].url = U_PAGE
  /\ tasks[1].phase = "settled"
  /\ MapHas(mem, U_PAGE)
  /\ got.url = U_PAGE
  /\ got.result # Null
  /\ metrics.cacheHits = 1
  /\ metrics.totalRequests = 1
  /\ returned = NoCall

\* C40: for every URL, isChannelPage(url) = true implies extract(url) =
\* null: no URL gets both a thumbnail from extract and the channel flag, and
\* the Metadata of a task for a URL flagged as a channel page has an empty
\* image and the channel flag.
C40_ChannelHasNoThumb ==
  /\ \A url \in ThumbProbes : probeOf[url].isChannel => probeOf[url].image = ""
  /\ \A url \in CacheURLs : isChannelPageOf[url] => extractOf[url] = ""
  /\ \A t \in TaskIds :
       (tasks[t].value # Null /\ isChannelPageOf[tasks[t].url]) =>
         /\ tasks[t].value.image = ""
         /\ tasks[t].value.isChannel
  /\ \A t \in TaskIds :
       (tasks[t].value # Null /\ tasks[t].value.image # ""
          /\ tasks[t].value.image = extractOf[tasks[t].url]) => ~tasks[t].value.isChannel

\* the task for the channel page settled with an empty image although the
\* answer carried one, the task for the video settled with the thumbnail of
\* extract and without the channel flag; among the probes are channel paths
\* with a v parameter, which extract accepts and isChannelPage rejects
C40_Witness ==
  /\ \E t \in TaskIds :
       /\ tasks[t].url = U_CHANNEL
       /\ tasks[t].value # Null
       /\ tasks[t].value.image = ""
       /\ tasks[t].value.isChannel
  /\ \E t \in TaskIds :
       /\ tasks[t].url = U_VIDEO
       /\ tasks[t].value # Null
       /\ tasks[t].value.image = extractOf[U_VIDEO]
       /\ ~tasks[t].value.isChannel
  /\ \E url \in ThumbProbes : probeOf[url].isChannel /\ url # U_CHANNEL
  /\ \E url \in ThumbProbes :
       /\ ~probeOf[url].isChannel
       /\ probeOf[url].image # ""
       /\ ParseURL(url).pathname = ParseURL(U_CHANNEL).pathname

====
